---- MODULE Spec2Model ----
(***************************************************************************)
(* Astrology, a Gemini protocol client.                                    *)
(*                                                                         *)
(* The module models gemini_fetch_document (the request/response state     *)
(* machine with its redirect and input-needed recursion), the content      *)
(* collection and the two parsers it calls, and the load step of the       *)
(* browser that wraps a failed fetch in an error notice.                   *)
(*                                                                         *)
(* Bytes are one-character strings.  C strings and buffers are sequences   *)
(* of bytes; the C index i is the TLA+ index i + 1.                        *)
(***************************************************************************)
EXTENDS Integers, Sequences, FiniteSets, TLC

(***************************************************************************)
(* Bytes                                                                   *)
(***************************************************************************)
NUL == "NUL"
CR == "\r"
LF == "\n"
SP == " "
TAB == "\t"
VT == "VT"
FF == "\f"
\* the backtick byte 0x60
BT == "BT"

\* <ctype.h> isspace in the C locale (the model's alphabet has no \v, \f)
isspace(c) == c \in {SP, TAB, LF, CR, VT, FF}

Min(a, b) == IF a < b THEN a ELSE b

\* common.h MAX
MAX(a, b) == IF a < b THEN b ELSE a

\* size_t arithmetic is modulo 2^w.  Every length of the program stays below
\* 2^11, so a difference wraps modulo 2^SIZE_BITS exactly when it wraps
\* modulo 2^64; 30 bits keep the wrapped value inside the integers of TLC.
SIZE_BITS == 30
SIZE_MAX == 2^SIZE_BITS - 1
SizeSub(a, b) == (a - b + SIZE_MAX + 1) % (SIZE_MAX + 1)

\* s[from..] as a sequence (1-based, empty when from > Len(s))
Drop(s, n) == SubSeq(s, n + 1, Len(s))
Take(s, n) == SubSeq(s, 1, Min(n, Len(s)))

\* The C read buf[i] of a buffer whose bytes 0..Len-1 are known; the byte
\* after them is the terminating NUL wherever the code has stored one.
At(s, i) == IF i >= 0 /\ i < Len(s) THEN s[i + 1] ELSE NUL

\* strncmp(a, lit, n) == 0 for a NUL-terminated a and a literal lit:
\* the first n bytes agree (a shorter a differs at its NUL)
StrNEq(a, lit, n) == \A i \in 0..(Min(n, Len(lit)) - 1) : At(a, i) = lit[i + 1]

(***************************************************************************)
(* gemini.h enumerations                                                   *)
(***************************************************************************)
GEMTEXT_PARAGRAPH == "paragraph"
GEMTEXT_PREFORMATTED == "preformatted"
GEMTEXT_LINK == "link"
GEMTEXT_HEADING_ONE == "heading-1"
GEMTEXT_HEADING_TWO == "heading-2"
GEMTEXT_HEADING_THREE == "heading-3"
GEMTEXT_BLOCKQUOTE == "blockquote"
GEMTEXT_LIST_ITEM == "list-item"

GEMINI_OK == "ok"
GEMINI_TEMPORARY_FAILURE == "temporary-failure"
GEMINI_PERMANENT_FAILURE == "permanent-failure"
GEMINI_CLIENT_CERTIFICATE_REQUIRED == "client-certificate-required"
GEMINI_IP_RESOLVE_FAILURE == "ip-resolve-failure"
GEMINI_SERVER_CONNECTION_FAILURE == "server-connection-failure"
GEMINI_TLS_HANDSHAKE_FAILURE == "tls-handshake-failure"
GEMINI_NOT_TEXT == "not-text"
GEMINI_HEADER_PARSING_FAILURE == "header-parse-failure"

\* a stack variable or heap field that no statement has written yet
UNINIT == "uninit"
\* ... a char array, an int, a dynamic array pointer
UninitBytes == <<UNINIT>>
UninitInt == -2
UninitArray == [uninit |-> TRUE]

(***************************************************************************)
(* Gemtext parser                                                          *)
(***************************************************************************)
\* the prefix of three backticks is not recognised
get_gemtext_type_from_line_NoFence(c, o) ==
    IF At(c, o) = ">" THEN GEMTEXT_BLOCKQUOTE
    ELSE IF At(c, o) = "*" THEN GEMTEXT_LIST_ITEM
    ELSE IF At(c, o) = "#" THEN GEMTEXT_HEADING_ONE
    ELSE GEMTEXT_PARAGRAPH

\* get_gemtext_type_from_line(content + o)
get_gemtext_type_from_line(c, o) ==
    IF At(c, o) = ">" THEN GEMTEXT_BLOCKQUOTE
    ELSE IF At(c, o) = "*" THEN GEMTEXT_LIST_ITEM
    ELSE IF At(c, o) = "#" THEN
        IF At(c, o + 1) # NUL /\ At(c, o + 2) = "#" THEN GEMTEXT_HEADING_THREE
        ELSE IF At(c, o + 1) = "#" THEN GEMTEXT_HEADING_TWO
        ELSE GEMTEXT_HEADING_ONE
    ELSE IF StrNEq(Drop(c, o), <<"=", ">">>, 2) THEN GEMTEXT_LINK
    ELSE IF StrNEq(Drop(c, o), <<BT, BT, BT>>, 3) THEN GEMTEXT_PREFORMATTED
    ELSE GEMTEXT_PARAGRAPH

\* while (isspace(content[offset])) offset++;  (stops at the NUL at the latest)
RECURSIVE SkipSpace(_, _)
SkipSpace(c, o) == IF isspace(At(c, o)) THEN SkipSpace(c, o + 1) ELSE o

\* while (end != content_length - 1 && content[end] != LF) end++;
RECURSIVE ScanEnd(_, _, _)
ScanEnd(c, L, e) ==
    IF e # L - 1 /\ At(c, e) # LF THEN ScanEnd(c, L, e + 1) ELSE e

\* white space that is followed by more content is skipped inside a
\* preformatted block as well
LineStart_AlwaysSkip(c, offset, pre) ==
    IF ~pre \/ SkipSpace(c, offset) < Len(c) THEN SkipSpace(c, offset) ELSE offset

\* white space is never skipped
LineStart_NeverSkip(c, offset, pre) == offset

\* if (!has_entered_preformatted) while (isspace(content[offset])) offset++;
LineStart(c, offset, pre) == IF ~pre THEN SkipSpace(c, offset) ELSE offset

\* the detected type is kept inside a preformatted block
ElementType_NotForced(t0, pre) == t0

\* new_item->type after the has_entered_preformatted test: a fence keeps its
\* type, any other line inside a block is overwritten with preformatted
ElementType(t0, pre) ==
    IF t0 = GEMTEXT_PREFORMATTED THEN t0
    ELSE IF pre THEN GEMTEXT_PREFORMATTED ELSE t0

\* the offset stays on the line break that ended the line
GemtextNextOffset_OnLineBreak(end) == (end - 1) + 1

\* new_item->end--; offset = new_item->end + 2;  (end is the offset of the
\* line break the scan has stopped at)
GemtextNextOffset(end) == (end - 1) + 2

\* One pass through the body of the while loop of
\* gemini_document_parse_gemtext, entered with offset < content_length: stop
\* tells that the pass has left the loop with a break, new holds the item it
\* has added, offset and pre are the state it leaves
GemtextIteration(c, offset, pre) ==
    LET L == Len(c)
        o == LineStart(c, offset, pre)
    IN
    IF ~pre /\ o > L - 1
    THEN [stop |-> TRUE, offset |-> o, pre |-> pre, new |-> <<>>]
    ELSE
      LET t0 == get_gemtext_type_from_line(c, o)
          pre1 == IF t0 = GEMTEXT_PREFORMATTED THEN ~pre ELSE pre
          t == ElementType(t0, pre)
          e == ScanEnd(c, L, o)
      IN IF e = L - 1
         THEN [stop |-> TRUE, offset |-> o, pre |-> pre1,
               new |-> <<[type |-> t, start |-> o, end |-> e]>>]
         ELSE [stop |-> FALSE, offset |-> GemtextNextOffset(e), pre |-> pre1,
               new |-> <<[type |-> t, start |-> o, end |-> e - 1]>>]

\* The while loop of gemini_document_parse_gemtext from the state
\* (offset, has_entered_preformatted, elements so far)
RECURSIVE ParseGemtextLoop(_, _, _, _)
ParseGemtextLoop(c, offset, pre, els) ==
    IF ~(offset < Len(c)) THEN els
    ELSE
      LET r == GemtextIteration(c, offset, pre) IN
      IF r.stop THEN els \o r.new
      ELSE ParseGemtextLoop(c, r.offset, r.pre, els \o r.new)

gemini_document_parse_gemtext(c) == ParseGemtextLoop(c, 0, FALSE, <<>>)

(***************************************************************************)
(* Raw text parser                                                         *)
(***************************************************************************)
\* where malloc has put the content: any address does, all that is done with
\* it is the subtraction from NULL below
ContentAddress == 4096

\* next_new_line - content when strchr has returned NULL
NullOffset == SizeSub(0, ContentAddress)

\* strchr(content + o, LF) - content: the search ends at the first NUL, the
\* one that terminates the content at the latest, and gives NULL then
RECURSIVE NextNewLine(_, _)
NextNewLine(c, o) ==
    IF At(c, o) = LF THEN o
    ELSE IF At(c, o) = NUL THEN NullOffset
    ELSE NextNewLine(c, o + 1)

CountNewLines(c) == Cardinality({i \in 1..Len(c) : c[i] = LF})

\* the next line starts at the line break itself
TextNextOffset_Same(end) == end

\* offset = new_item->end + 1;
TextNextOffset(end) == (end + 1) % (SIZE_MAX + 1)

\* The second for loop of gemini_document_parse_text from (i, offset): the
\* elements stored, and fault when strchr is called with content + offset
\* for an offset left by a NULL result, which is the address 1
RECURSIVE ParseTextLoop(_, _, _, _, _)
ParseTextLoop(c, total_lines, i, offset, els) ==
    IF ~(i < total_lines) THEN [elements |-> els, fault |-> FALSE]
    ELSE IF i # total_lines - 1
         THEN IF offset > Len(c)
              THEN [elements |-> Append(els, [type |-> GEMTEXT_PREFORMATTED,
                                              start |-> offset, end |-> UninitInt]),
                    fault |-> TRUE]
              ELSE LET e == NextNewLine(c, offset)
                   IN ParseTextLoop(c, total_lines, i + 1, TextNextOffset(e),
                         Append(els, [type |-> GEMTEXT_PREFORMATTED, start |-> offset, end |-> e]))
         ELSE ParseTextLoop(c, total_lines, i + 1, offset,
                     Append(els, [type |-> GEMTEXT_PREFORMATTED, start |-> offset, end |-> Len(c)]))

TextParse(c) == ParseTextLoop(c, CountNewLines(c), 0, 0, <<>>)

gemini_document_parse_text(c) == TextParse(c).elements

(***************************************************************************)
(* URL utilities (common.c)                                                *)
(***************************************************************************)
\* index of the first byte c at or after index from, or Len(s) if none
IndexFrom(s, c, from) ==
    LET hits == {i \in from..(Len(s) - 1) : s[i + 1] = c}
    IN IF hits = {} THEN Len(s) ELSE CHOOSE i \in hits : \A j \in hits : i <= j

\* get_hostname_length: strchr(url, ':'), then strchr(colon + 3, '/');
\* the url carries a scheme separator (common.h: "must strictly include a scheme")
get_hostname_length(url) ==
    LET colon == IndexFrom(url, ":", 0) IN IndexFrom(url, "/", colon + 3)

\* get_hostname_with_scheme keeping the slash that ends the host
get_hostname_with_scheme_WithSlash(url) ==
    LET hostname_length == get_hostname_length(url) IN
    IF hostname_length # Len(url) THEN SubSeq(url, 1, hostname_length + 1) ELSE url

\* get_hostname_with_scheme: the first get_hostname_length bytes, or a copy
get_hostname_with_scheme(url) ==
    LET hostname_length == get_hostname_length(url) IN
    IF hostname_length # Len(url) THEN SubSeq(url, 1, hostname_length) ELSE url

\* has_protocol_scheme: a ':' among the first eight bytes of the string
has_protocol_scheme(url) ==
    \E i \in 0..7 : i < Len(url) /\ url[i + 1] = ":"

\* join_strings_together: first_len bytes of first, then second_len of second
join_strings_together(first, first_len, second, second_len) ==
    Take(first, first_len) \o Take(second, second_len)

\* the directory-relative branch cutting the base before its last slash
join_relative_link_to_url_DropSlash(current_url, link) ==
    IF At(link, 0) = "/"
    THEN join_strings_together(current_url, get_hostname_length(current_url),
                               link, Len(link))
    ELSE LET hits == {i \in 1..Len(current_url) : At(current_url, i) = "/"}
         IN IF hits = {} THEN UninitBytes
            ELSE join_strings_together(current_url,
                                       CHOOSE i \in hits : \A j \in hits : j <= i,
                                       link, Len(link))

\* join_relative_link_to_url: a link that starts with '/' replaces the path;
\* any other link replaces what follows the last '/' found from the end of
\* the base down to index 1.  With no '/' there the function returns no
\* value: the caller reads an unwritten pointer.
join_relative_link_to_url(current_url, link) ==
    IF At(link, 0) = "/"
    THEN join_strings_together(current_url, get_hostname_length(current_url),
                               link, Len(link))
    ELSE LET hits == {i \in 1..Len(current_url) : At(current_url, i) = "/"}
         IN IF hits = {} THEN UninitBytes
            ELSE join_strings_together(current_url,
                                       (CHOOSE i \in hits : \A j \in hits : j <= i) + 1,
                                       link, Len(link))

\* gemini_browser_get_link_under_cursor: link->content for the link string
LinkContent(url, link_string) ==
    IF has_protocol_scheme(link_string)
    THEN link_string
    ELSE join_relative_link_to_url(url, link_string)

(***************************************************************************)
(* Bounds and inputs of the fetch model                                    *)
(***************************************************************************)
\* redirect and input-needed responses a chain may contain
MaxHops == 2

\* bytes of the longest response body
MaxBody == 3

\* gemini_fetch_document: char io_buffer[1030]
IO_BUFFER_SIZE == 1030

\* gemini_document_collect_content: size_t chunk_size = 1024
chunk_size == 1024

Scheme == <<"g", "e", "m", "i", "n", "i", ":", "/", "/">>
UrlA == Scheme \o <<"a", "/">>
UrlB == Scheme \o <<"b">>
\* the longest URL main accepts: strlen(argv[1]) > 1022 is refused
MAX_URL_LENGTH == 1022
UrlMax == Scheme \o <<"a", "/">> \o [i \in 1..(MAX_URL_LENGTH - 11) |-> "x"]

\* the URLs the browser is asked to load
UserUrls == {UrlA, UrlMax}

\* length of an input that passes the end of io_buffer when it follows UrlMax
LongInput == 8

\* what the user types when a server asks for input
UserInputs == {<<>>, <<"q">>, [i \in 1..LongInput |-> "q"]}

Bodies == {b \in {<<>>, <<"#", LF>>, <<"a", LF, "b">>, <<"a", LF, LF, "b">>} : Len(b) <= MaxBody}

CRLF == <<CR, LF>>
MetaGemini == <<"t", "e", "x", "t", "/", "g", "e", "m", "i", "n", "i">>
MetaPlain == <<"t", "e", "x", "t", "/", "p", "l", "a", "i", "n">>
MetaGemix == <<"t", "e", "x", "t", "/", "g", "e", "m", "i", "x">>
MetaImage == <<"i", "m", "a", "g", "e", "/", "p", "n", "g">>

Hdr(st, meta) == st \o <<SP>> \o meta \o CRLF

\* A server is the byte stream it writes after the request, followed by what
\* every later read reports: end of stream (0), an error (-1), or more bytes
\* that never hold a line terminator.
Script(bytes, hlen, tail) == [bytes |-> bytes, hlen |-> hlen, tail |-> tail]

SuccessHeaders ==
    { <<"2", "0">> \o CRLF, <<"2", "0", SP>> \o CRLF,
      Hdr(<<"2", "0">>, MetaGemini), Hdr(<<"2", "0">>, MetaPlain),
      Hdr(<<"2", "0">>, MetaGemix), Hdr(<<"2", "0">>, MetaImage) }

TerminalHeaders ==
    { Hdr(<<"4", "0">>, <<"x">>), Hdr(<<"5", "1">>, <<"x">>), Hdr(<<"6", "0">>, <<"x">>),
      Hdr(<<"7", "0">>, <<"x">>), <<"4", "0">> \o CRLF }

ChainHeaders == { Hdr(<<"3", "1">>, UrlB), Hdr(<<"1", "0">>, <<"p">>) }

\* input-needed responses with a prompt of two words and with no prompt
PromptHeaders == { Hdr(<<"1", "0">>, <<"p", SP, "q">>), <<"1", "0">> \o CRLF }

\* a redirect that leaves the gemini scheme
UrlHttps == <<"h", "t", "t", "p", "s", ":", "/", "/", "b", "/">>
ForeignHeaders == { Hdr(<<"3", "1">>, UrlHttps) }

TruncatedHeaders == { <<>>, CRLF, <<"2", "0", CR>>, <<"2", CR, LF>>, <<"5">> }

\* The servers a hop may talk to.  The servers whose stream fails or never
\* ends and those of PromptHeaders are met on the first hop only: what the
\* client does with them does not depend on the hop.
Scripts(canChain, first) ==
    {Script(h \o b, Len(h), t) : h \in SuccessHeaders, b \in Bodies, t \in {"eof"}}
    \cup {Script(h \o b, Len(h), "eof") : h \in TerminalHeaders, b \in {<<>>, <<"z">>}}
    \cup {Script(h, Len(h), "eof") : h \in TruncatedHeaders}
    \cup {Script(h, Len(h), "eof") : h \in IF canChain THEN ChainHeaders ELSE {}}
    \cup {Script(h, Len(h), "eof") : h \in IF first THEN PromptHeaders \cup ForeignHeaders ELSE {}}
    \cup (IF first THEN {Script(<<>>, 0, "err"), Script(<<>>, 0, "flood")} ELSE {})

\* what an unwritten meta[1024] may hold when it is read: stack bytes left by
\* earlier calls (an earlier response's meta among them)
MetaGarbage == {<<>>, <<"x">>, MetaGemini, MetaPlain}

(***************************************************************************)
(* sscanf(io_buffer, "%2s %s\r\n", status, meta)                           *)
(***************************************************************************)
\* the C string held by a buffer: the bytes before its first NUL
CStr(buf) == SubSeq(buf, 1, IndexFrom(buf, NUL, 0))

SkipWs(s, i) ==
    LET stops == {k \in i..Len(s) : k = Len(s) \/ ~isspace(s[k + 1])}
    IN CHOOSE k \in stops : \A j \in stops : k <= j

\* end of the run of at most max non-space bytes that starts at i
TokEnd(s, i, max) ==
    LET stops == {k \in i..Min(i + max, Len(s)) :
                     k = i + max \/ k = Len(s) \/ isspace(s[k + 1])}
    IN CHOOSE k \in stops : \A j \in stops : k <= j

\* A conversion that meets the end of the input assigns nothing: its
\* argument keeps whatever it held.
sscanf_header(buf) ==
    LET s == CStr(buf)
        i0 == SkipWs(s, 0)
        i1 == TokEnd(s, i0, 2)
        i2 == SkipWs(s, i1)
        i3 == TokEnd(s, i2, Len(s))
    IN [status |-> IF i0 = Len(s) THEN UninitBytes ELSE SubSeq(s, i0 + 1, i1),
        meta |-> IF i0 = Len(s) \/ i2 = Len(s) THEN UninitBytes ELSE SubSeq(s, i2 + 1, i3)]

(***************************************************************************)
(* Dynamic array (dynamic_array.c); a content array is the record of its   *)
(* header fields and of the bytes stored so far                            *)
(***************************************************************************)
\* sizeof(char) and sizeof(gemtext_line_t) (an enum and two size_t) on LP64
SizeofChar == 1
SizeofLine == 24

dyn_array_create(initial_capacity, item_size) ==
    [uninit |-> FALSE, length |-> 0, capacity |-> initial_capacity,
     item_size |-> item_size, data |-> <<>>]

\* capacity = total_items (no doubling)
dyn_array_resize_to_fit_Exact(array, total_items) ==
    IF total_items > array.capacity
    THEN [array EXCEPT !.capacity = total_items]
    ELSE array

dyn_array_resize_to_fit(array, total_items) ==
    IF total_items > array.capacity
    THEN [array EXCEPT !.capacity = MAX(total_items, array.capacity * 2)]
    ELSE array

\* length += 1 with no call of dyn_array_resize_to_fit
dyn_array_prepare_new_item_NoResize(array) ==
    [array EXCEPT !.length = @ + 1]

\* length += 1, then dyn_array_resize_to_fit(array, length)
dyn_array_prepare_new_item(array) ==
    dyn_array_resize_to_fit([array EXCEPT !.length = @ + 1], array.length + 1)

\* The elements array a parser leaves: created with initial_capacity, then
\* one dyn_array_prepare_new_item and one store through DYN_ARRAY_GET_LAST
\* per item
RECURSIVE FillArray(_, _)
FillArray(array, items) ==
    IF items = <<>> THEN array
    ELSE FillArray([dyn_array_prepare_new_item(array) EXCEPT
                        !.data = Append(array.data, Head(items))],
                   Tail(items))

(***************************************************************************)
(* Browser error notice (browser.c error_format, gemini_error_mappings):   *)
(* "# Astrology: Gemini Request Failed\n> Error Details: <message> If..."  *)
(* Each run of plain text of the template is written as one plain byte,    *)
(* the message as one byte that names the error.                           *)
(***************************************************************************)
ErrorNotice(error) == <<"#", SP, "A", LF, ">", SP, "E", SP, error, SP, "I">>

(***************************************************************************)
(* History list (doubly_linked.c).  nodes holds every doubly_node_t ever   *)
(* allocated, in malloc order; a pointer is NULL or the index of a node.   *)
(* frees counts the free() calls on a node (each preceded by one call of   *)
(* the deallocator on its data), popped marks the nodes removed by         *)
(* doubly_linked_delete_head.  A field malloc left unwritten holds         *)
(* UninitInt; undefined records that an unwritten field or a freed node    *)
(* has been read, crashed that a null pointer has been dereferenced.       *)
(***************************************************************************)
NULL == 0

\* MAX_HISTORY_LENGTH comes from a configuration header that is not part of
\* the sources; the browser's list is created with the longest history of
\* the bounded range
MaxHistory == 3
MAX_HISTORY_LENGTH == MaxHistory

doubly_linked_create(max_length) ==
    [head |-> NULL, tail |-> NULL, max_length |-> max_length, length |-> 0,
     nodes |-> <<>>, undefined |-> FALSE, crashed |-> FALSE]

\* The values a read of the pointer field holding v of node p can deliver:
\* an unwritten field and a field of a freed node hold whatever the heap
\* holds there, NULL or the address of any node
PointerRead(list, p, v) ==
    IF v = UninitInt \/ list.nodes[p].frees > 0
    THEN 0..Len(list.nodes)
    ELSE {v}

\* "clear the last entry": tail = tail->previous, deallocate and free the
\* old tail, length--
EvictTail(list) ==
    IF list.tail = NULL
    THEN {[list EXCEPT !.crashed = TRUE]}
    ELSE LET t == list.tail
             node == list.nodes[t]
         IN {[list EXCEPT !.tail = p,
                          !.nodes[t].frees = @ + 1,
                          !.length = SizeSub(@, 1),
                          !.undefined = @ \/ node.previous = UninitInt \/ node.frees > 0]
                : p \in PointerRead(list, t, node.previous)}

\* the lists doubly_linked_insert_first(list, data) can leave
doubly_linked_insert_first(list, data) ==
    LET n == Len(list.nodes) + 1
        fresh == [data |-> data, previous |-> UninitInt, next |-> UninitInt,
                  frees |-> 0, popped |-> FALSE]
        linked ==
            IF list.length = 0
            THEN [list EXCEPT !.head = n, !.tail = n, !.nodes = Append(@, fresh)]
            ELSE IF list.head = NULL
            THEN [list EXCEPT !.crashed = TRUE]
            ELSE [list EXCEPT
                     !.head = n,
                     !.nodes = Append([@ EXCEPT ![list.head].next = n],
                                      [fresh EXCEPT !.previous = list.head]),
                     !.undefined = @ \/ list.nodes[list.head].frees > 0]
        evicted ==
            IF linked.crashed THEN {linked}
            ELSE IF linked.length = SizeSub(linked.max_length, 1)
            THEN EvictTail(linked)
            ELSE {linked}
    IN {IF l.crashed THEN l ELSE [l EXCEPT !.length = (@ + 1) % (SIZE_MAX + 1)]
           : l \in evicted}

\* the lists doubly_linked_delete_head(list) can leave
doubly_linked_delete_head(list) ==
    IF list.length < 2 THEN {list}
    ELSE IF list.head = NULL THEN {[list EXCEPT !.crashed = TRUE]}
    ELSE LET h == list.head
             node == list.nodes[h]
         IN {[list EXCEPT !.head = p,
                          !.nodes[h].frees = @ + 1,
                          !.nodes[h].popped = TRUE,
                          !.length = @ - 1,
                          !.undefined = @ \/ node.previous = UninitInt \/ node.frees > 0]
                : p \in PointerRead(list, h, node.previous)}

(***************************************************************************)
(* State                                                                   *)
(***************************************************************************)
VARIABLES
    pc,             \* the statement the program is at
    hop,            \* depth of the gemini_fetch_document recursion (0: not called)
    gemini_url,     \* argument of the current gemini_fetch_document frame
    connection,     \* int connection: index into sockets, -1, or UninitInt
    error,          \* gemini_error_e error
    io_buffer,      \* the written bytes of char io_buffer[1030]
    header_length,  \* size_t header_length
    status,         \* char status[2]
    meta,           \* char meta[1024]
    document,       \* the gemini_document_t returned, or NullDocument
    server,         \* the script of the server the current hop talks to
    spos,           \* bytes of the script the client has consumed
    sockets,        \* per socket() call: hop and number of close() calls
    sessions,       \* per SSL_new call: numbers of SSL_shutdown / SSL_free calls
    requests,       \* per SSL_write call: hop and the bytes written
    lookups,        \* per getaddrinfo call: the name looked up
    reads,          \* per hop: SSL_read calls of the header loop / of collection
    callbacks,      \* per input_callback call: prompt and max_length
    parsed_with,    \* the parser that produced document.elements
    calls,          \* per gemini_fetch_document call: its gemini_url argument
    failed_step,    \* the step of the current hop the network made fail, or "none"
    oob,            \* a store past the end of io_buffer has happened
    pages,          \* browser->pages: the history list and every node allocated for it
    unit            \* the library call made outside a fetch: its arguments and result

vars == <<pc, hop, gemini_url, connection, error, io_buffer, header_length,
          status, meta, document, server, spos, sockets, sessions, requests,
          lookups, reads, callbacks, parsed_with, calls, failed_step, oob, pages, unit>>

NoServer == Script(<<>>, 0, "none")

\* no library call is under way
NoCall == [op |-> "none"]

\* no gemini_document_t has been allocated
NullDocument == [null |-> TRUE]

Init ==
    /\ pc = "idle"
    /\ hop = 0
    /\ gemini_url = <<>>
    /\ connection = UninitInt
    /\ error = UNINIT
    /\ io_buffer = <<>>
    /\ header_length = 0
    /\ status = UninitBytes
    /\ meta = UninitBytes
    /\ document = NullDocument
    /\ server = NoServer
    /\ spos = 0
    /\ sockets = <<>>
    /\ sessions = <<>>
    /\ requests = <<>>
    /\ lookups = <<>>
    /\ reads = <<>>
    /\ callbacks = <<>>
    /\ parsed_with = "none"
    /\ calls = <<>>
    /\ failed_step = "none"
    /\ oob = FALSE
    /\ pages = doubly_linked_create(MAX_HISTORY_LENGTH)
    /\ unit = NoCall

(***************************************************************************)
(* Helpers of the actions                                                  *)
(***************************************************************************)
\* close(connection) left out
Close_Missing(socks, conn) == socks

\* close(connection): close(-1) fails with EBADF and closes nothing
Close(socks, conn) ==
    IF conn \in 1..Len(socks) THEN [socks EXCEPT ![conn].closes = @ + 1] ELSE socks

\* SSL_shutdown(ssl); SSL_free(ssl); for the session of frame h
ShutdownAndFree(sess, h) ==
    [sess EXCEPT ![h].shutdowns = @ + 1, ![h].frees = @ + 1]

\* buf[i] = b for a buffer whose written bytes are buf
Store(buf, i, b) ==
    IF i < Len(buf) THEN [buf EXCEPT ![i + 1] = b]
    ELSE buf \o [k \in 1..(i - Len(buf)) |-> UNINIT] \o <<b>>

\* strncpy(buf + i, bytes, Len(bytes)) and the like: bytes stored from index i
StoreAll(buf, i, bytes) ==
    IF bytes = <<>> THEN buf
    ELSE [k \in 1..MAX(Len(buf), i + Len(bytes)) |->
             IF k - 1 >= i /\ k - 1 < i + Len(bytes) THEN bytes[k - i]
             ELSE IF k <= Len(buf) THEN buf[k] ELSE UNINIT]

\* buf[i] for the header loop.  With the scripts of the model the loop only
\* reads written bytes (received ones, or the request sprintf left there);
\* an unwritten byte would compare unequal to CR and LF.
IoAt(buf, i) == IF i >= 0 /\ i < Len(buf) THEN buf[i + 1] ELSE UNINIT

\* what a status[2] that sscanf left unwritten may hold
StatusGarbage == {<<"2", "0">>, <<"5", "0">>, <<"x", "x">>}

\* Entry of a gemini_fetch_document frame: SSL_new and a fresh stack;
\* sess are the sessions at the time of the call
EnterFetch(url, sess) ==
    /\ hop' = hop + 1
    /\ gemini_url' = url
    /\ calls' = Append(calls, url)
    /\ failed_step' = "none"
    /\ sessions' = Append(sess, [hop |-> hop + 1, shutdowns |-> 0, frees |-> 0])
    /\ reads' = Append(reads, [header |-> 0, body |-> 0])
    /\ connection' = UninitInt
    /\ error' = UNINIT
    /\ io_buffer' = <<>>
    /\ header_length' = 0
    /\ status' = UninitBytes
    /\ meta' = UninitBytes
    /\ server' = NoServer
    /\ spos' = 0
    /\ pc' = "resolve"

(***************************************************************************)
(* Actions                                                                 *)
(***************************************************************************)
\* gemini_browser_load_document up to its call of gemini_fetch_document
LoadDocument ==
    /\ pc = "idle"
    /\ \E url \in UserUrls : EnterFetch(url, sessions)
    /\ UNCHANGED <<document, sockets, requests, lookups, callbacks, parsed_with, oob, pages, unit>>

\* create_ordinary_tcp_connection: getaddrinfo(hostname + 9, ...)
GetAddrInfo ==
    /\ pc = "resolve"
    /\ lookups' = Append(lookups, Drop(get_hostname_with_scheme(gemini_url), 9))
    /\ \/ /\ pc' = "connect"
          /\ UNCHANGED <<error, connection, failed_step>>
       \/ /\ error' = GEMINI_IP_RESOLVE_FAILURE
          /\ connection' = -1
          /\ failed_step' = "resolve"
          /\ pc' = "fetch_failed"
    /\ UNCHANGED <<hop, gemini_url, io_buffer, header_length, status, meta, document,
                   server, spos, sockets, sessions, requests, reads, callbacks,
                   parsed_with, calls, oob, pages, unit>>

\* create_ordinary_tcp_connection: socket(), connect()
SocketConnect ==
    /\ pc = "connect"
    /\ sockets' = Append(sockets, [hop |-> hop, closes |-> 0])
    /\ \/ /\ error' = GEMINI_OK
          /\ connection' = Len(sockets) + 1
          /\ pc' = "handshake"
          /\ UNCHANGED failed_step
       \/ /\ error' = GEMINI_SERVER_CONNECTION_FAILURE
          /\ connection' = -1
          /\ failed_step' = "connect"
          /\ pc' = "fetch_failed"
    /\ UNCHANGED <<hop, gemini_url, io_buffer, header_length, status, meta, document,
                   server, spos, sessions, requests, lookups, reads, callbacks,
                   parsed_with, calls, oob, pages, unit>>

\* SSL_connect failing without the goto fetch_failed
SSLConnect_NoGoto ==
    /\ pc = "handshake"
    /\ \/ /\ pc' = "send"
          /\ UNCHANGED <<error, failed_step>>
       \/ /\ error' = GEMINI_TLS_HANDSHAKE_FAILURE
          /\ failed_step' = "handshake"
          /\ pc' = "send"
    /\ UNCHANGED <<hop, gemini_url, connection, io_buffer, header_length, status, meta,
                   document, server, spos, sockets, sessions, requests, lookups,
                   reads, callbacks, parsed_with, calls, oob, pages, unit>>

\* SSL_set_fd, SSL_connect
SSLConnect ==
    /\ pc = "handshake"
    /\ \/ /\ pc' = "send"
          /\ UNCHANGED <<error, failed_step>>
       \/ /\ error' = GEMINI_TLS_HANDSHAKE_FAILURE
          /\ failed_step' = "handshake"
          /\ pc' = "fetch_failed"
    /\ UNCHANGED <<hop, gemini_url, connection, io_buffer, header_length, status, meta,
                   document, server, spos, sockets, sessions, requests, lookups,
                   reads, callbacks, parsed_with, calls, oob, pages, unit>>

\* sprintf(io_buffer, "%s\r\n", gemini_url); SSL_write(ssl, io_buffer, url_len + 2);
\* the server that receives the request decides on its answer
SendRequest ==
    /\ pc = "send"
    /\ IF Len(gemini_url) + 3 > IO_BUFFER_SIZE
       THEN \* sprintf stores past the end of io_buffer
            /\ oob' = TRUE
            /\ pc' = "crashed"
            /\ UNCHANGED <<io_buffer, requests, header_length, server, spos>>
       ELSE /\ io_buffer' = gemini_url \o CRLF \o <<NUL>>
            /\ requests' = Append(requests, [hop |-> hop,
                                bytes |-> SubSeq(io_buffer', 1, Len(gemini_url) + 2)])
            /\ header_length' = 0
            /\ \E sc \in Scripts(hop <= MaxHops, hop = 1) : server' = sc
            /\ spos' = 0
            /\ pc' = "read_header"
            /\ UNCHANGED oob
    /\ UNCHANGED <<hop, gemini_url, connection, error, status, meta, document, sockets,
                   sessions, lookups, reads, callbacks, parsed_with, calls, failed_step, pages, unit>>

\* The state after header_length++ and the terminator test of the header loop
HeaderLoopTail(buf, hl) ==
    IF hl >= 2 /\ IoAt(buf, hl - 2) = CR /\ IoAt(buf, hl - 1) = LF
    THEN IF hl >= IO_BUFFER_SIZE
         THEN /\ oob' = TRUE
              /\ io_buffer' = buf
              /\ pc' = "crashed"
         ELSE /\ io_buffer' = Store(buf, hl, NUL)
              /\ pc' = "parse_header"
              /\ UNCHANGED oob
    ELSE /\ io_buffer' = buf
         /\ pc' = "read_header"
         /\ UNCHANGED oob

\* One iteration of the header loop: SSL_read(ssl, io_buffer + header_length, 1)
ReadHeaderByte ==
    /\ pc = "read_header"
    /\ reads' = [reads EXCEPT ![hop].header = @ + 1]
    /\ IF spos < Len(server.bytes) \/ server.tail = "flood"
       THEN \* bytes_read = 1
            LET b == IF spos < Len(server.bytes) THEN server.bytes[spos + 1] ELSE "x" IN
            /\ spos' = IF spos < Len(server.bytes) THEN spos + 1 ELSE spos
            /\ IF header_length >= IO_BUFFER_SIZE
               THEN /\ oob' = TRUE
                    /\ pc' = "crashed"
                    /\ UNCHANGED <<io_buffer, header_length>>
               ELSE /\ header_length' = header_length + 1
                    /\ HeaderLoopTail(Store(io_buffer, header_length, b), header_length + 1)
       ELSE IF server.tail = "eof"
       THEN \* bytes_read = 0: break
            /\ pc' = "parse_header"
            /\ UNCHANGED <<spos, io_buffer, header_length, oob>>
       ELSE \* bytes_read = -1: nothing is stored, the loop goes on
            /\ header_length' = header_length + 1
            /\ HeaderLoopTail(io_buffer, header_length + 1)
            /\ UNCHANGED spos
    /\ UNCHANGED <<hop, gemini_url, connection, error, status, meta, document, server,
                   sockets, sessions, requests, lookups, callbacks, parsed_with, calls, failed_step, pages, unit>>

\* the test written as header_length < 3
HeaderTooShort_OffByOne(hl) == hl < 3

\* if (header_length < 4): "If not even a status was received"
HeaderTooShort(hl) == hl < 4

\* if (header_length < 4) ...; sscanf(io_buffer, "%2s %s\r\n", status, meta);
ParseHeader ==
    /\ pc = "parse_header"
    /\ IF HeaderTooShort(header_length)
       THEN /\ error' = GEMINI_HEADER_PARSING_FAILURE
            /\ pc' = "fetch_failed"
            /\ UNCHANGED <<status, meta>>
       ELSE LET r == sscanf_header(io_buffer) IN
            /\ status' \in (IF r.status = UninitBytes THEN StatusGarbage ELSE {r.status})
            /\ meta' \in (IF r.meta = UninitBytes THEN MetaGarbage ELSE {r.meta})
            /\ pc' = "dispatch"
            /\ UNCHANGED error
    /\ UNCHANGED <<hop, gemini_url, connection, io_buffer, header_length, document,
                   server, spos, sockets, sessions, requests, lookups, reads,
                   callbacks, parsed_with, calls, failed_step, oob, pages, unit>>

\* case '1': glue "?" and the user's input to the URL, close, recurse
StatusInput ==
    /\ pc = "dispatch"
    /\ status[1] = "1"
    /\ LET url_len == Len(gemini_url)
           offset == url_len + 1
           max_length == SizeSub(1021, offset)
       IN \E input \in {i \in UserInputs : Len(i) <= max_length} :
            LET copied == StoreAll(io_buffer, 0, gemini_url)
                marked == Store(copied, url_len, "?")
                filled == StoreAll(marked, offset, input)
                buf == Store(filled, offset + Len(input), NUL)
            IN /\ callbacks' = Append(callbacks,
                                   [hop |-> hop, prompt |-> meta,
                                    max_length |-> max_length, written |-> input,
                                    header |-> SubSeq(server.bytes, 1, server.hlen)])
               /\ IF offset + Len(input) >= IO_BUFFER_SIZE
                  THEN \* the callback or the NUL stored past the end of io_buffer
                       /\ oob' = TRUE
                       /\ pc' = "crashed"
                       /\ UNCHANGED <<hop, gemini_url, connection, error, io_buffer,
                                      header_length, status, meta, server, spos,
                                      sockets, sessions, reads, calls, failed_step>>
                  ELSE /\ sockets' = Close(sockets, connection)
                       /\ EnterFetch(CStr(buf), ShutdownAndFree(sessions, hop))
                       /\ UNCHANGED oob
    /\ UNCHANGED <<document, requests, lookups, parsed_with, pages, unit>>

\* case '3': close, recurse with meta as the URL
StatusRedirect ==
    /\ pc = "dispatch"
    /\ status[1] = "3"
    /\ sockets' = Close(sockets, connection)
    /\ EnterFetch(meta, ShutdownAndFree(sessions, hop))
    /\ UNCHANGED <<document, requests, lookups, callbacks, parsed_with, oob, pages, unit>>

\* the errors of case '4' and case '5' exchanged
StatusError_Swapped(s0) ==
    IF s0 = "4" THEN GEMINI_PERMANENT_FAILURE
    ELSE IF s0 = "5" THEN GEMINI_TEMPORARY_FAILURE
    ELSE GEMINI_CLIENT_CERTIFICATE_REQUIRED

\* case '4', '5', '6'
StatusError(s0) ==
    IF s0 = "4" THEN GEMINI_TEMPORARY_FAILURE
    ELSE IF s0 = "5" THEN GEMINI_PERMANENT_FAILURE
    ELSE GEMINI_CLIENT_CERTIFICATE_REQUIRED

StatusFailure ==
    /\ pc = "dispatch"
    /\ status[1] \in {"4", "5", "6"}
    /\ error' = StatusError(status[1])
    /\ pc' = "fetch_failed"
    /\ UNCHANGED <<hop, gemini_url, connection, io_buffer, header_length, status, meta,
                   document, server, spos, sockets, sessions, requests, lookups,
                   reads, callbacks, parsed_with, calls, failed_step, oob, pages, unit>>

\* any other first byte leaves the switch with error as the connection set it
StatusOther ==
    /\ pc = "dispatch"
    /\ status[1] \notin {"1", "3", "4", "5", "6"}
    /\ pc' = "fetch_failed"
    /\ UNCHANGED <<hop, gemini_url, connection, error, io_buffer, header_length, status,
                   meta, document, server, spos, sockets, sessions, requests, lookups,
                   reads, callbacks, parsed_with, calls, failed_step, oob, pages, unit>>

\* bool is_gemini, is_text of the fetch_failed block
is_gemini == header_length < 6 \/ StrNEq(meta, MetaGemini, 9)
is_text == StrNEq(meta, <<"t", "e", "x", "t">>, 4)

\* the document keeps the host part of the URL only
NewDocument_HostOnly(err, url) ==
    [null |-> FALSE, error |-> err, url |-> get_hostname_with_scheme(url),
     content |-> UninitArray, elements |-> UninitArray]

\* malloc(sizeof(gemini_document_t)); document->error = error;
\* document->url = strdup(gemini_url);
NewDocument(err, url) ==
    [null |-> FALSE, error |-> err, url |-> url,
     content |-> UninitArray, elements |-> UninitArray]

\* fetch_failed: the document is allocated; a status 2 with a text meta starts
\* the collection.  (error is tested first here: status is unwritten exactly
\* when error is a failure, and the conjunction is false then.)
FetchFailed ==
    /\ pc = "fetch_failed"
    /\ LET doc == NewDocument(error, gemini_url)
       IN IF error = GEMINI_OK /\ status[1] = "2"
          THEN IF is_text
               THEN /\ document' = [doc EXCEPT !.content = dyn_array_create(chunk_size, SizeofChar)]
                    /\ pc' = "collect"
               ELSE /\ document' = [doc EXCEPT !.error = GEMINI_NOT_TEXT]
                    /\ pc' = "cleanup"
          ELSE /\ document' = doc
               /\ pc' = "cleanup"
    /\ UNCHANGED <<hop, gemini_url, connection, error, io_buffer, header_length, status,
                   meta, server, spos, sockets, sessions, requests, lookups, reads,
                   callbacks, parsed_with, calls, failed_step, oob, pages, unit>>

\* the capacity test left out
Grown_Never(array) == array

\* the array after the capacity test at the top of the collection loop
Grown(array) ==
    IF array.capacity - array.length < chunk_size
    THEN dyn_array_resize_to_fit(array, array.length + chunk_size)
    ELSE array

\* the bytes put in front of the content instead of behind it
ReadInto_AtStart(array, bytes) ==
    [array EXCEPT !.data = bytes \o SubSeq(array.data, 1, array.length),
                  !.length = array.length + Len(bytes)]

\* SSL_read(ssl, content + length, chunk_size) delivering bytes, and
\* length += bytes_read
ReadInto(array, bytes) ==
    [array EXCEPT !.data = SubSeq(array.data, 1, array.length) \o bytes,
                  !.length = array.length + Len(bytes)]

\* The sizes of the reads SSL_read delivers when remaining bytes are left in
\* the stream: every size for a short rest, else one byte, a chunk less one
\* byte, or a whole chunk
ReadSizes(remaining) ==
    IF remaining <= MaxBody + 1
    THEN 1..remaining
    ELSE {n \in {1, chunk_size - 1, chunk_size} : n <= remaining}

\* One iteration of the collection loop in which SSL_read delivers n bytes
CollectChunk ==
    /\ pc = "collect"
    /\ spos < Len(server.bytes)
    /\ \E n \in ReadSizes(Len(server.bytes) - spos) :
         /\ document' = [document EXCEPT !.content =
                ReadInto(Grown(document.content),
                         SubSeq(server.bytes, spos + 1, spos + n))]
         /\ spos' = spos + n
    /\ reads' = [reads EXCEPT ![hop].body = @ + 1]
    /\ UNCHANGED <<pc, hop, gemini_url, connection, error, io_buffer, header_length,
                   status, meta, server, sockets, sessions, requests, lookups,
                   callbacks, parsed_with, calls, failed_step, oob, pages, unit>>

\* The last iteration: SSL_read reports 0 or -1, the loop breaks and the
\* terminating NUL is stored at content[length]
CollectEnd ==
    /\ pc = "collect"
    /\ spos >= Len(server.bytes)
    /\ LET a == Grown(document.content) IN
       document' = [document EXCEPT !.content =
                        [a EXCEPT !.data = SubSeq(a.data, 1, a.length) \o <<NUL>>]]
    /\ reads' = [reads EXCEPT ![hop].body = @ + 1]
    /\ pc' = "parse"
    /\ UNCHANGED <<hop, gemini_url, connection, error, io_buffer, header_length, status,
                   meta, server, spos, sockets, sessions, requests, lookups,
                   callbacks, parsed_with, calls, failed_step, oob, pages, unit>>

\* the logical content of a document: its first length bytes
ContentOf(doc) == SubSeq(doc.content.data, 1, doc.content.length)

\* if (is_gemini) gemini_document_parse_gemtext else gemini_document_parse_text
ParseContent ==
    /\ pc = "parse"
    /\ IF is_gemini
       THEN /\ document' = [document EXCEPT !.elements =
                                FillArray(dyn_array_create(20, SizeofLine),
                                    gemini_document_parse_gemtext(ContentOf(document)))]
            /\ parsed_with' = "gemtext"
            /\ pc' = "cleanup"
       ELSE /\ document' = [document EXCEPT !.elements =
                                FillArray(dyn_array_create(CountNewLines(ContentOf(document)), SizeofLine),
                                    gemini_document_parse_text(ContentOf(document)))]
            /\ parsed_with' = "text"
            /\ pc' = IF TextParse(ContentOf(document)).fault THEN "crashed" ELSE "cleanup"
    /\ UNCHANGED <<hop, gemini_url, connection, error, io_buffer, header_length, status,
                   meta, server, spos, sockets, sessions, requests, lookups, reads,
                   callbacks, oob, calls, failed_step, pages, unit>>

\* SSL_shutdown(ssl); SSL_free(ssl); close(connection); return document;
Cleanup ==
    /\ pc = "cleanup"
    /\ sessions' = ShutdownAndFree(sessions, hop)
    /\ sockets' = Close(sockets, connection)
    /\ pc' = "returned"
    /\ UNCHANGED <<hop, gemini_url, connection, error, io_buffer, header_length, status,
                   meta, document, server, spos, requests, lookups, reads, callbacks,
                   parsed_with, calls, failed_step, oob, pages, unit>>

\* The document of a page once gemini_browser_load_document has looked at
\* the fetched document: a failed document gets the error notice as content,
\* parsed as gemtext
NoticeDocument(doc) ==
    IF doc.error # GEMINI_OK
    THEN LET notice == ErrorNotice(doc.error) IN
         [doc EXCEPT
             !.content = [dyn_array_create(Len(notice) + 1, SizeofChar) EXCEPT
                              !.data = notice \o <<NUL>>,
                              !.length = Len(notice)],
             !.elements = FillArray(dyn_array_create(20, SizeofLine),
                                    gemini_document_parse_gemtext(notice))]
    ELSE doc

\* gemini_browser_load_document after the fetch: the notice of a failed
\* document, then the page is put at the head of the history
FinishLoad ==
    /\ pc = "returned"
    /\ document' = NoticeDocument(document)
    /\ pages' \in doubly_linked_insert_first(pages, document.url)
    /\ pc' = IF pages'.crashed THEN "crashed" ELSE "loaded"
    /\ UNCHANGED <<hop, gemini_url, connection, error, io_buffer, header_length, status,
                   meta, server, spos, sockets, sessions, requests, lookups, reads,
                   callbacks, parsed_with, calls, failed_step, oob, unit>>

Next ==
    \/ LoadDocument
    \/ GetAddrInfo
    \/ SocketConnect
    \/ SSLConnect
    \/ SendRequest
    \/ ReadHeaderByte
    \/ ParseHeader
    \/ StatusInput
    \/ StatusRedirect
    \/ StatusFailure
    \/ StatusOther
    \/ FetchFailed
    \/ CollectChunk
    \/ CollectEnd
    \/ ParseContent
    \/ Cleanup
    \/ FinishLoad

Spec == Init /\ [][Next]_vars

(***************************************************************************)
(* The parsers over bounded contents: the fetch of UrlA has collected the  *)
(* body of a status-2 response and is about to parse it                    *)
(***************************************************************************)
\* lines of the longest content
MaxLines == 4

\* bytes of the longest single-line content
MaxLineLen == 3

Fence == <<BT, BT, BT>>

\* the bytes single-line contents are made of
ParserAlphabet == {"#", BT, "a", SP, "=", ">", "*"}

\* the lines longer contents are made of
LineVocabulary ==
    { <<>>, Fence, <<"a">>, <<"#", "a">>, <<SP, "a">>, <<SP>>, <<SP>> \o Fence }

\* the lines with a line break after each but the last
RECURSIVE JoinLines(_)
JoinLines(ls) ==
    IF Len(ls) = 0 THEN <<>>
    ELSE IF Len(ls) = 1 THEN ls[1]
    ELSE ls[1] \o <<LF>> \o JoinLines(Tail(ls))

\* fence, code, fence, # H
FencedCode ==
    JoinLines(<<Fence, <<"c", "o", "d", "e">>, Fence, <<"#", SP, "H">>>>)

\* bodies with a NUL byte in their first line: of two lines and of three
NulContents ==
    { <<"a", NUL, "b", LF, "c", LF>>, <<"a", NUL, LF, "b", LF, "c", LF>> }

\* a line of a single '#' followed by a heading, and by a paragraph
HeadingContents ==
    { <<"#", LF, "#", "a">>, <<"#", LF, "a">> }

ParserContents ==
    LET single == UNION {[1..n -> ParserAlphabet] : n \in 0..MaxLineLen}
        multi == {JoinLines(ls) : ls \in UNION {[1..n -> LineVocabulary] : n \in 1..MaxLines}}
        open == single \cup multi \cup {FencedCode} \cup HeadingContents
    IN open \cup {c \o <<LF>> : c \in open} \cup NulContents

\* The state gemini_document_collect_content leaves when the server of UrlA
\* has answered "20 <mime>" followed by body and closed the stream
InitParse ==
    \E mime \in {MetaGemini, MetaPlain}, body \in ParserContents :
        LET h == Hdr(<<"2", "0">>, mime)
            request == UrlA \o CRLF
        IN
        /\ pc = "parse"
        /\ hop = 1
        /\ gemini_url = UrlA
        /\ connection = 1
        /\ error = GEMINI_OK
        /\ io_buffer = Store(StoreAll(request \o <<NUL>>, 0, h), Len(h), NUL)
        /\ header_length = Len(h)
        /\ status = <<"2", "0">>
        /\ meta = mime
        /\ document = [NewDocument(GEMINI_OK, UrlA) EXCEPT !.content =
               [uninit |-> FALSE, length |-> Len(body),
                capacity |-> IF body = <<>> THEN chunk_size ELSE 2 * chunk_size,
                item_size |-> SizeofChar,
                data |-> body \o <<NUL>>]]
        /\ server = Script(h \o body, Len(h), "eof")
        /\ spos = Len(h) + Len(body)
        /\ sockets = <<[hop |-> 1, closes |-> 0]>>
        /\ sessions = <<[hop |-> 1, shutdowns |-> 0, frees |-> 0]>>
        /\ requests = <<[hop |-> 1, bytes |-> request]>>
        /\ lookups = <<Drop(get_hostname_with_scheme(UrlA), 9)>>
        /\ reads = <<[header |-> Len(h), body |-> IF body = <<>> THEN 1 ELSE 2]>>
        /\ callbacks = <<>>
        /\ parsed_with = "none"
        /\ calls = <<UrlA>>
        /\ failed_step = "none"
        /\ oob = FALSE
        /\ pages = doubly_linked_create(MAX_HISTORY_LENGTH)
        /\ unit = NoCall

NextParse ==
    \/ ParseContent
    \/ Cleanup
    \/ FinishLoad

SpecParse == InitParse /\ [][NextParse]_vars

(***************************************************************************)
(* History specification: page loads and go-backs on the browser's list,   *)
(* for every max_length of the bounded range.  A load is                   *)
(* gemini_browser_load_document as a whole, its fetch having returned one  *)
(* of FetchedDocuments.                                                    *)
(***************************************************************************)
\* page loads of one run
MaxLoads == 4

\* documents gemini_fetch_document returns when name resolution fails
FetchedDocuments == {NewDocument(GEMINI_IP_RESOLVE_FAILURE, u) : u \in {UrlA, UrlB}}

InitHistory ==
    /\ pc = "idle"
    /\ hop = 0
    /\ gemini_url = <<>>
    /\ connection = UninitInt
    /\ error = UNINIT
    /\ io_buffer = <<>>
    /\ header_length = 0
    /\ status = UninitBytes
    /\ meta = UninitBytes
    /\ document = NullDocument
    /\ server = NoServer
    /\ spos = 0
    /\ sockets = <<>>
    /\ sessions = <<>>
    /\ requests = <<>>
    /\ lookups = <<>>
    /\ reads = <<>>
    /\ callbacks = <<>>
    /\ parsed_with = "none"
    /\ calls = <<>>
    /\ failed_step = "none"
    /\ oob = FALSE
    /\ \E max_length \in 1..MaxHistory : pages = doubly_linked_create(max_length)
    /\ unit = NoCall

\* gemini_browser_load_document(browser, url)
LoadPage ==
    /\ pc \in {"idle", "loaded"}
    /\ Len(pages.nodes) < MaxLoads
    /\ \E doc \in FetchedDocuments :
         /\ document' = NoticeDocument(doc)
         /\ pages' \in doubly_linked_insert_first(pages, doc.url)
    /\ pc' = IF pages'.crashed THEN "crashed" ELSE "loaded"
    /\ UNCHANGED <<hop, gemini_url, connection, error, io_buffer, header_length, status,
                   meta, server, spos, sockets, sessions, requests, lookups, reads,
                   callbacks, parsed_with, calls, failed_step, oob, unit>>

\* gemini_browser_go_back(browser)
GoBack ==
    /\ pc = "loaded"
    /\ pages' \in doubly_linked_delete_head(pages)
    /\ pc' = IF pages'.crashed THEN "crashed" ELSE "loaded"
    /\ UNCHANGED <<hop, gemini_url, connection, error, io_buffer, header_length, status,
                   meta, document, server, spos, sockets, sessions, requests, lookups,
                   reads, callbacks, parsed_with, calls, failed_step, oob, unit>>

NextHistory ==
    \/ LoadPage
    \/ GoBack

SpecHistory == InitHistory /\ [][NextHistory]_vars

(***************************************************************************)
(* Array specification: one buffer under dyn_array_create followed by any  *)
(* sequence of dyn_array_resize_to_fit, dyn_array_prepare_new_item and     *)
(* iterations of the collection loop.  unit holds the call made last, the  *)
(* array before it and the array it returned.                              *)
(***************************************************************************)
\* items a run adds one by one, before and after a whole chunk
MaxItems == 3

\* capacities the buffer is created with
ArrayCapacities == {0, 1, 2, 20, chunk_size}

\* the total_items dyn_array_resize_to_fit is called with
ArraySizes == 0..(MaxItems + 1) \cup {20, 21, chunk_size, chunk_size + 1, 2 * chunk_size + 1}

\* the lengths a run takes the buffer through
ArrayLengths == {l \in 0..(chunk_size + MaxItems) : l % chunk_size <= MaxItems}

ArrayCall(call, needed, before, after) ==
    [op |-> "array", call |-> call, needed |-> needed, before |-> before, array |-> after]

InitArray ==
    /\ pc = "idle"
    /\ hop = 0
    /\ gemini_url = <<>>
    /\ connection = UninitInt
    /\ error = UNINIT
    /\ io_buffer = <<>>
    /\ header_length = 0
    /\ status = UninitBytes
    /\ meta = UninitBytes
    /\ document = NullDocument
    /\ server = NoServer
    /\ spos = 0
    /\ sockets = <<>>
    /\ sessions = <<>>
    /\ requests = <<>>
    /\ lookups = <<>>
    /\ reads = <<>>
    /\ callbacks = <<>>
    /\ parsed_with = "none"
    /\ calls = <<>>
    /\ failed_step = "none"
    /\ oob = FALSE
    /\ pages = doubly_linked_create(MAX_HISTORY_LENGTH)
    /\ \E initial_capacity \in ArrayCapacities, item_size \in {SizeofChar, SizeofLine} :
         LET a == dyn_array_create(initial_capacity, item_size)
         IN unit = ArrayCall("create", initial_capacity, a, a)

\* array = dyn_array_resize_to_fit(array, needed)
ArrayResizeToFit ==
    /\ unit.op = "array"
    /\ \E needed \in ArraySizes :
         unit' = ArrayCall("resize_to_fit", needed, unit.array,
                           dyn_array_resize_to_fit(unit.array, needed))
    /\ UNCHANGED <<pc, hop, gemini_url, connection, error, io_buffer, header_length,
                   status, meta, document, server, spos, sockets, sessions, requests,
                   lookups, reads, callbacks, parsed_with, calls, failed_step, oob, pages>>

\* array = dyn_array_prepare_new_item(array); DYN_ARRAY_GET_LAST(array) = item
ArrayPrepareNewItem ==
    /\ unit.op = "array"
    /\ unit.array.length + 1 \in ArrayLengths
    /\ unit' = ArrayCall("prepare_new_item", 1, unit.array,
                         [dyn_array_prepare_new_item(unit.array) EXCEPT
                             !.data = SubSeq(unit.array.data, 1, unit.array.length)
                                          \o <<"i">>])
    /\ UNCHANGED <<pc, hop, gemini_url, connection, error, io_buffer, header_length,
                   status, meta, document, server, spos, sockets, sessions, requests,
                   lookups, reads, callbacks, parsed_with, calls, failed_step, oob, pages>>

\* one iteration of the collection loop on the array, SSL_read delivering n bytes
ArrayCollect ==
    /\ unit.op = "array"
    /\ \E n \in {1, chunk_size} :
         /\ unit.array.length + n \in ArrayLengths
         /\ unit' = ArrayCall("collect", n, unit.array,
                              ReadInto(Grown(unit.array), [i \in 1..n |-> "x"]))
    /\ UNCHANGED <<pc, hop, gemini_url, connection, error, io_buffer, header_length,
                   status, meta, document, server, spos, sockets, sessions, requests,
                   lookups, reads, callbacks, parsed_with, calls, failed_step, oob, pages>>

NextArray ==
    \/ ArrayResizeToFit
    \/ ArrayPrepareNewItem
    \/ ArrayCollect

SpecArray == InitArray /\ [][NextArray]_vars

(***************************************************************************)
(* Collection specification: the fetch of UrlA from the request on, the    *)
(* server answering "20 text/plain" and a body of a size around the chunk  *)
(* size, delivered in reads of any of ReadSizes.                           *)
(***************************************************************************)
\* body sizes: none, one byte, and around one and two chunks
CollectSizes ==
    {0, 1, chunk_size - 1, chunk_size, chunk_size + 1, 2 * chunk_size, 2 * chunk_size + 1}

\* a body of n bytes whose pattern repeats with a period that divides no
\* read size
BodyOf(n) == [i \in 1..n |-> <<"a", "b", "c", "d", "e", "f", "g">>[(i % 7) + 1]]

\* the bodies: one per size, and one that holds line terminators of its own
CollectBodies == {BodyOf(n) : n \in CollectSizes} \cup {<<CR, LF, "a", LF>>}

\* The state SSL_write leaves on the first hop: the request for UrlA is
\* out and the server sc is about to answer
Requested(sc) ==
    LET request == UrlA \o CRLF IN
    /\ pc = "read_header"
    /\ hop = 1
    /\ gemini_url = UrlA
    /\ connection = 1
    /\ error = GEMINI_OK
    /\ io_buffer = request \o <<NUL>>
    /\ header_length = 0
    /\ status = UninitBytes
    /\ meta = UninitBytes
    /\ document = NullDocument
    /\ server = sc
    /\ spos = 0
    /\ sockets = <<[hop |-> 1, closes |-> 0]>>
    /\ sessions = <<[hop |-> 1, shutdowns |-> 0, frees |-> 0]>>
    /\ requests = <<[hop |-> 1, bytes |-> request]>>
    /\ lookups = <<Drop(get_hostname_with_scheme(UrlA), 9)>>
    /\ reads = <<[header |-> 0, body |-> 0]>>
    /\ callbacks = <<>>
    /\ parsed_with = "none"
    /\ calls = <<UrlA>>
    /\ failed_step = "none"
    /\ oob = FALSE
    /\ pages = doubly_linked_create(MAX_HISTORY_LENGTH)
    /\ unit = NoCall

InitCollect ==
    \E body \in CollectBodies :
        Requested(Script(Hdr(<<"2", "0">>, MetaPlain) \o body,
                         Len(Hdr(<<"2", "0">>, MetaPlain)), "eof"))

NextCollect ==
    \/ ReadHeaderByte
    \/ ParseHeader
    \/ StatusOther
    \/ FetchFailed
    \/ CollectChunk
    \/ CollectEnd
    \/ ParseContent
    \/ Cleanup
    \/ FinishLoad

SpecCollect == InitCollect /\ [][NextCollect]_vars

(***************************************************************************)
(* URL specification: the URL utilities applied to base URLs of the form   *)
(* scheme://host[/path] and to the link strings of a page.  unit holds the *)
(* parts the base URL was written from, the link, the call made last and   *)
(* its result.                                                             *)
(***************************************************************************)
\* the parts of the base URLs: three schemes; a name, a dotted name and a
\* name with a port as host; no path, the root, files and directories
BaseUrls ==
    [scheme : {<<"g", "e", "m", "i", "n", "i">>, <<"h", "t", "t", "p", "s">>, <<"x">>},
     host : {<<"a">>, <<"a", ".", "b">>, <<"a", ":", "1">>},
     path : {<<>>, <<"/">>, <<"/", "d">>, <<"/", "d", "/">>, <<"/", "d", "/", "f">>,
             <<"/", "d", "/", "/", "f", ":", "g">>}]

\* link strings: with a scheme, host-relative, directory-relative, empty,
\* and one whose only ':' is its ninth byte
LinkStrings ==
    {Scheme \o <<"c", "/", "x">>, <<"h", "t", "t", "p", "s", ":", "/", "/", "c">>,
     <<"a", ":", "b">>, <<"/">>, <<"/", "r">>, <<"/", "r", "/", "s">>,
     <<"n">>, <<"d", "/", "n">>, <<".", ".", "/", "n">>, <<"?", "q">>, <<>>,
     <<"1", "2", "3", "4", "5", "6", "7", "8", ":", "n">>}

UrlOf(scheme, host, path) == scheme \o <<":", "/", "/">> \o host \o path

UrlCall(call, before, result) == [before EXCEPT !.call = call, !.result = result]

InitUrl ==
    /\ pc = "idle"
    /\ hop = 0
    /\ gemini_url = <<>>
    /\ connection = UninitInt
    /\ error = UNINIT
    /\ io_buffer = <<>>
    /\ header_length = 0
    /\ status = UninitBytes
    /\ meta = UninitBytes
    /\ document = NullDocument
    /\ server = NoServer
    /\ spos = 0
    /\ sockets = <<>>
    /\ sessions = <<>>
    /\ requests = <<>>
    /\ lookups = <<>>
    /\ reads = <<>>
    /\ callbacks = <<>>
    /\ parsed_with = "none"
    /\ calls = <<>>
    /\ failed_step = "none"
    /\ oob = FALSE
    /\ pages = doubly_linked_create(MAX_HISTORY_LENGTH)
    /\ \E base \in BaseUrls, link \in LinkStrings :
         unit = [op |-> "url", scheme |-> base.scheme, host |-> base.host,
                 path |-> base.path,
                 url |-> UrlOf(base.scheme, base.host, base.path), link |-> link,
                 call |-> "none", result |-> <<>>]

\* hostname = get_hostname_with_scheme(url)
UrlHostname ==
    /\ unit.op = "url"
    /\ unit' = UrlCall("get_hostname_with_scheme", unit, get_hostname_with_scheme(unit.url))
    /\ UNCHANGED <<pc, hop, gemini_url, connection, error, io_buffer, header_length,
                   status, meta, document, server, spos, sockets, sessions, requests,
                   lookups, reads, callbacks, parsed_with, calls, failed_step, oob, pages>>

\* gemini_browser_get_link_under_cursor from the link string on, the page
\* being the document of url
UrlLinkContent ==
    /\ unit.op = "url"
    /\ unit' = UrlCall("link", unit, LinkContent(unit.url, unit.link))
    /\ UNCHANGED <<pc, hop, gemini_url, connection, error, io_buffer, header_length,
                   status, meta, document, server, spos, sockets, sessions, requests,
                   lookups, reads, callbacks, parsed_with, calls, failed_step, oob, pages>>

NextUrl ==
    \/ UrlHostname
    \/ UrlLinkContent

SpecUrl == InitUrl /\ [][NextUrl]_vars

(***************************************************************************)
(* Fair specification of one exchange: the request for UrlA is out and the *)
(* server answers with a whole response, with a stream that ends or fails  *)
(* before a header is complete, or with bytes that never hold a line       *)
(* terminator.  The program is one thread that blocks in no call but       *)
(* SSL_read, and every SSL_read returns: a step that can be taken is       *)
(* taken.                                                                  *)
(***************************************************************************)
LiveScripts ==
    {Script(Hdr(<<"2", "0">>, MetaPlain) \o b, Len(Hdr(<<"2", "0">>, MetaPlain)), "eof")
        : b \in Bodies}
    \cup {Script(Hdr(<<"5", "1">>, <<"x">>), Len(Hdr(<<"5", "1">>, <<"x">>)), "eof")}
    \cup {Script(h, Len(h), t) : h \in {<<>>, <<"2", "0", CR>>}, t \in {"eof", "err", "flood"}}

InitLive == \E sc \in LiveScripts : Requested(sc)

NextLive ==
    \/ ReadHeaderByte
    \/ ParseHeader
    \/ StatusFailure
    \/ StatusOther
    \/ FetchFailed
    \/ CollectChunk
    \/ CollectEnd
    \/ ParseContent
    \/ Cleanup
    \/ FinishLoad

SpecLive == InitLive /\ [][NextLive]_vars /\ WF_vars(NextLive)

(***************************************************************************)
(* Input specification: collect_url_from_user (main.c) reading keys until  *)
(* Enter.  unit holds the bytes written to the caller's buffer, the locals *)
(* input_length and scroll_x, the highest index written plus one, the      *)
(* number of keys read and, after Enter, the length returned.              *)
(***************************************************************************)
\* keys of one run, and the largest max_length and status bar room
MaxKeys == 6
MaxInputLength == 4
MaxVisible == 2

KEY_BACKSPACE == "KEY_BACKSPACE"

\* (char) KEY_BACKSPACE: 0407 cut to eight bits
BEL == "BEL"

\* the keys: a printable character, a space, a backspace
InputKeys == {"q", SP, KEY_BACKSPACE}

\* isprint(c): KEY_BACKSPACE is no unsigned char value, the table lookup
\* reads past the table and may give either answer
IsPrint(c) == IF c = KEY_BACKSPACE THEN {TRUE, FALSE} ELSE {TRUE}

\* every space is stored, whatever room is left
SpaceFits_Always(input_length, max_length) == input_length >= 0

\* if (input_length + 3 < max_length)
SpaceFits(input_length, max_length) == input_length + 3 < max_length

\* "If we've gone past the bar's width, adjust the horizontal scroll"
Scrolled(u) ==
    IF u.input_length >= u.max_visible_length
    THEN [u EXCEPT !.scroll_x = u.input_length - u.max_visible_length]
    ELSE u

\* one iteration of the while loop for the key c, isprint(c) being printable
KeyPressed(u, c, printable) ==
    IF c = KEY_BACKSPACE /\ u.input_length > 0
    THEN Scrolled([u EXCEPT !.input_length = @ - 1])
    ELSE IF printable
    THEN IF u.input_length >= u.max_length
         THEN u
         ELSE IF c = SP
         THEN IF SpaceFits(u.input_length, u.max_length)
              THEN Scrolled([u EXCEPT
                       !.buffer = StoreAll(@, u.input_length, <<"%", "2", "0">>),
                       !.written = MAX(@, u.input_length + 3),
                       !.input_length = @ + 3])
              ELSE Scrolled(u)
         ELSE Scrolled([u EXCEPT
                  !.buffer = Store(@, u.input_length,
                                   IF c = KEY_BACKSPACE THEN BEL ELSE c),
                  !.written = MAX(@, u.input_length + 1),
                  !.input_length = @ + 1])
    ELSE Scrolled(u)

InitInput ==
    /\ pc = "idle"
    /\ hop = 0
    /\ gemini_url = <<>>
    /\ connection = UninitInt
    /\ error = UNINIT
    /\ io_buffer = <<>>
    /\ header_length = 0
    /\ status = UninitBytes
    /\ meta = UninitBytes
    /\ document = NullDocument
    /\ server = NoServer
    /\ spos = 0
    /\ sockets = <<>>
    /\ sessions = <<>>
    /\ requests = <<>>
    /\ lookups = <<>>
    /\ reads = <<>>
    /\ callbacks = <<>>
    /\ parsed_with = "none"
    /\ calls = <<>>
    /\ failed_step = "none"
    /\ oob = FALSE
    /\ pages = doubly_linked_create(MAX_HISTORY_LENGTH)
    /\ \E max_length \in 0..MaxInputLength, max_visible_length \in 1..MaxVisible :
         unit = [op |-> "input", buffer |-> <<>>, input_length |-> 0,
                 max_length |-> max_length, scroll_x |-> 0,
                 max_visible_length |-> max_visible_length,
                 written |-> 0, keys |-> 0, spaces |-> 0, last |-> "none",
                 done |-> FALSE, result |-> 0]

\* getch() returns a key other than Enter
InputKey ==
    /\ unit.op = "input"
    /\ ~unit.done
    /\ unit.keys < MaxKeys
    /\ \E c \in InputKeys, printable \in BOOLEAN :
         /\ printable \in IsPrint(c)
         /\ unit' = [KeyPressed(unit, c, printable) EXCEPT
                        !.keys = @ + 1,
                        !.spaces = @ + (IF c = SP THEN 1 ELSE 0),
                        !.last = c]
    /\ UNCHANGED <<pc, hop, gemini_url, connection, error, io_buffer, header_length,
                   status, meta, document, server, spos, sockets, sessions, requests,
                   lookups, reads, callbacks, parsed_with, calls, failed_step, oob, pages>>

\* getch() returns '\n': return input_length
InputEnter ==
    /\ unit.op = "input"
    /\ ~unit.done
    /\ unit' = [unit EXCEPT !.done = TRUE, !.result = unit.input_length]
    /\ UNCHANGED <<pc, hop, gemini_url, connection, error, io_buffer, header_length,
                   status, meta, document, server, spos, sockets, sessions, requests,
                   lookups, reads, callbacks, parsed_with, calls, failed_step, oob, pages>>

NextInput ==
    \/ InputKey
    \/ InputEnter

SpecInput == InitInput /\ [][NextInput]_vars

(***************************************************************************)
(* Scan specification: gemini_document_parse_gemtext taken one pass of its *)
(* while loop at a time over the bounded contents                          *)
(***************************************************************************)
\* The state at the first test of the loop condition:
\* offset = 0, has_entered_preformatted = false, no element yet
InitScan ==
    /\ pc = "idle"
    /\ hop = 0
    /\ gemini_url = <<>>
    /\ connection = UninitInt
    /\ error = UNINIT
    /\ io_buffer = <<>>
    /\ header_length = 0
    /\ status = UninitBytes
    /\ meta = UninitBytes
    /\ document = NullDocument
    /\ server = NoServer
    /\ spos = 0
    /\ sockets = <<>>
    /\ sessions = <<>>
    /\ requests = <<>>
    /\ lookups = <<>>
    /\ reads = <<>>
    /\ callbacks = <<>>
    /\ parsed_with = "none"
    /\ calls = <<>>
    /\ failed_step = "none"
    /\ oob = FALSE
    /\ pages = doubly_linked_create(MAX_HISTORY_LENGTH)
    /\ \E body \in ParserContents :
         unit = [op |-> "scan", content |-> body, offset |-> 0, pre |-> FALSE,
                 elements |-> <<>>, before |-> 0, iterations |-> 0, done |-> FALSE]

\* while (offset < content_length) is false: the function returns
ScanExit ==
    /\ unit.op = "scan"
    /\ ~unit.done
    /\ ~(unit.offset < Len(unit.content))
    /\ unit' = [unit EXCEPT !.done = TRUE]
    /\ UNCHANGED <<pc, hop, gemini_url, connection, error, io_buffer, header_length,
                   status, meta, document, server, spos, sockets, sessions, requests,
                   lookups, reads, callbacks, parsed_with, calls, failed_step, oob, pages>>

\* one pass through the loop body; before keeps the offset the pass began with
ScanIterate ==
    /\ unit.op = "scan"
    /\ ~unit.done
    /\ unit.offset < Len(unit.content)
    /\ LET r == GemtextIteration(unit.content, unit.offset, unit.pre) IN
       unit' = [unit EXCEPT !.offset = r.offset,
                            !.pre = r.pre,
                            !.elements = @ \o r.new,
                            !.before = unit.offset,
                            !.iterations = @ + 1,
                            !.done = r.stop]
    /\ UNCHANGED <<pc, hop, gemini_url, connection, error, io_buffer, header_length,
                   status, meta, document, server, spos, sockets, sessions, requests,
                   lookups, reads, callbacks, parsed_with, calls, failed_step, oob, pages>>

NextScan ==
    \/ ScanIterate
    \/ ScanExit

SpecScan == InitScan /\ [][NextScan]_vars

(***************************************************************************)
(* Link specification: the cursor of the current page and                  *)
(* gemini_browser_get_link_under_cursor over bounded gemtext documents     *)
(***************************************************************************)
\* lines of the longest document
MaxLinkLines == 3

\* highest cursor position followed (the cursor of a document without
\* elements is not held back by scroll_to)
MaxCursor == 3

\* bytes past the terminating NUL the scan for the end of a link may read
MaxOverrun == 2

LINK_SCHEME_INVALID == "LINK_SCHEME_INVALID"
LINK_SCHEME_GEMINI == "LINK_SCHEME_GEMINI"
LINK_SCHEME_HTTP == "LINK_SCHEME_HTTP"
LINK_SCHEME_HTTPS == "LINK_SCHEME_HTTPS"

\* link lines with and without a target and a label, a paragraph and a
\* blank line
LinkLineVocabulary ==
    { <<"=", ">">>, <<"=", ">", SP>>, <<"=", ">", "u">>, <<"=", ">", SP, "u">>,
      <<"=", ">", SP, "u", SP, "t">>, <<"u">>, <<>> }

LinkContents ==
    LET open == {JoinLines(ls) :
                    ls \in UNION {[1..n -> LinkLineVocabulary] : n \in 1..MaxLinkLines}}
    IN open \cup {c \o <<LF>> : c \in open}

\* for (start = element->start + 2; isspace(content[start]); start++);
LinkStart(content, element) == SkipSpace(content, element.start + 2)

\* for (end = start; end != element->end && !isspace(content[end + 1]); end++);
\* The reads up to the terminating NUL are defined.  A scan that has not
\* stopped before reads content[end + 1] behind the NUL, bytes that nothing
\* has written: it stops wherever one of them happens to be white space
LinkEnd(content, element, start) ==
    LET L == Len(content)
        stops == {e \in start..(L - 1) : e = element.end \/ isspace(At(content, e + 1))}
    IN IF stops # {}
       THEN {[end |-> CHOOSE e \in stops : \A j \in stops : e <= j, oob |-> FALSE]}
       ELSE {[end |-> e, oob |-> TRUE] : e \in MAX(start, L)..(L + MaxOverrun)}

\* strncpy(link_string, content + start, end - start + 1): the bytes from
\* start to end, up to the terminating NUL
LinkString(content, start, end) ==
    LET stop == Min(end + 1, IndexFrom(content, NUL, start))
    IN SubSeq(content, start + 1, stop)

\* the scheme_mappings loop: the first scheme the link content begins with
LinkScheme(link_content) ==
    IF StrNEq(link_content, Scheme, 9) THEN LINK_SCHEME_GEMINI
    ELSE IF StrNEq(link_content, <<"h", "t", "t", "p", ":", "/", "/">>, 7) THEN LINK_SCHEME_HTTP
    ELSE IF StrNEq(link_content, <<"h", "t", "t", "p", "s", ":", "/", "/">>, 8) THEN LINK_SCHEME_HTTPS
    ELSE LINK_SCHEME_INVALID

\* link before gemini_browser_get_link_under_cursor has been called
NoLink ==
    [called |-> FALSE, undefined |-> FALSE, scheme |-> LINK_SCHEME_INVALID,
     start |-> 0, end |-> 0, oob |-> FALSE, link_string |-> <<>>, content |-> <<>>]

\* gemini_browser_get_link_under_cursor: the outcomes for the page of url
\* with the given content and elements.  With the cursor outside the
\* elements array the element read is one nothing has written
gemini_browser_get_link_under_cursor(url, content, elements, scroll_offset) ==
    IF scroll_offset >= Len(elements)
    THEN {[NoLink EXCEPT !.called = TRUE, !.undefined = TRUE]}
    ELSE LET element == elements[scroll_offset + 1] IN
         IF element.type # GEMTEXT_LINK
         THEN {[NoLink EXCEPT !.called = TRUE]}
         ELSE LET start == LinkStart(content, element) IN
              { LET link_string == LinkString(content, start, r.end)
                    link_content == LinkContent(url, link_string)
                IN [called |-> TRUE, undefined |-> FALSE,
                    scheme |-> LinkScheme(link_content),
                    start |-> start, end |-> r.end, oob |-> r.oob,
                    link_string |-> link_string, content |-> link_content]
                : r \in LinkEnd(content, element, start) }

\* The page of UrlA has been loaded: its content parsed, the cursor on the
\* first element
InitLink ==
    /\ pc = "idle"
    /\ hop = 0
    /\ gemini_url = <<>>
    /\ connection = UninitInt
    /\ error = UNINIT
    /\ io_buffer = <<>>
    /\ header_length = 0
    /\ status = UninitBytes
    /\ meta = UninitBytes
    /\ document = NullDocument
    /\ server = NoServer
    /\ spos = 0
    /\ sockets = <<>>
    /\ sessions = <<>>
    /\ requests = <<>>
    /\ lookups = <<>>
    /\ reads = <<>>
    /\ callbacks = <<>>
    /\ parsed_with = "none"
    /\ calls = <<>>
    /\ failed_step = "none"
    /\ oob = FALSE
    /\ pages = doubly_linked_create(MAX_HISTORY_LENGTH)
    /\ \E body \in LinkContents :
         unit = [op |-> "cursor", url |-> UrlA, content |-> body,
                 elements |-> gemini_document_parse_gemtext(body),
                 scroll_offset |-> 0, link |-> NoLink]

\* scroll_to(page->scroll_offset - 1) and scroll_to(page->scroll_offset + 1):
\* the upper bound is the size_t DYN_ARRAY_LENGTH(elements) - 1
ScrollTo ==
    /\ unit.op = "cursor"
    /\ \E new_offset \in {unit.scroll_offset - 1, unit.scroll_offset + 1} :
         /\ new_offset <= MaxCursor
         /\ ~(new_offset < 0 \/ new_offset > SizeSub(Len(unit.elements), 1))
         /\ unit' = [unit EXCEPT !.scroll_offset = new_offset]
    /\ UNCHANGED <<pc, hop, gemini_url, connection, error, io_buffer, header_length,
                   status, meta, document, server, spos, sockets, sessions, requests,
                   lookups, reads, callbacks, parsed_with, calls, failed_step, oob, pages>>

\* follow_link_under_cursor calls gemini_browser_get_link_under_cursor
GetLinkUnderCursor ==
    /\ unit.op = "cursor"
    /\ \E link \in gemini_browser_get_link_under_cursor(unit.url, unit.content,
                                                        unit.elements, unit.scroll_offset) :
         unit' = [unit EXCEPT !.link = link]
    /\ UNCHANGED <<pc, hop, gemini_url, connection, error, io_buffer, header_length,
                   status, meta, document, server, spos, sockets, sessions, requests,
                   lookups, reads, callbacks, parsed_with, calls, failed_step, oob, pages>>

NextLink ==
    \/ ScrollTo
    \/ GetLinkUnderCursor

SpecLink == InitLink /\ [][NextLink]_vars

(***************************************************************************)
(* Properties of the fetch                                                 *)
(***************************************************************************)
\* gemini_fetch_document has returned to the browser
Returned == pc \in {"returned", "loaded"}

OpenSockets == {i \in 1..Len(sockets) : sockets[i].closes = 0}
LiveSessions == {i \in 1..Len(sessions) : sessions[i].frees = 0}

\* the header and the body the server of the current hop sends
Header == SubSeq(server.bytes, 1, server.hlen)
Body == SubSeq(server.bytes, server.hlen + 1, Len(server.bytes))

\* <2 bytes status>[<space><meta>]\r\n
WellFormedHeader(h) ==
    /\ Len(h) >= 4
    /\ ~isspace(h[1]) /\ ~isspace(h[2])
    /\ Len(h) > 4 => h[3] = SP
    /\ SubSeq(h, Len(h) - 1, Len(h)) = CRLF
    /\ \A i \in 1..(Len(h) - 2) : h[i] \notin {CR, LF}

\* the meta of a well-formed header
HeaderMeta(h) == SubSeq(h, 4, Len(h) - 2)

Errors ==
    {GEMINI_OK, GEMINI_TEMPORARY_FAILURE, GEMINI_PERMANENT_FAILURE,
     GEMINI_CLIENT_CERTIFICATE_REQUIRED, GEMINI_IP_RESOLVE_FAILURE,
     GEMINI_SERVER_CONNECTION_FAILURE, GEMINI_TLS_HANDSHAKE_FAILURE,
     GEMINI_NOT_TEXT, GEMINI_HEADER_PARSING_FAILURE}

\* C1: no socket is closed twice and no TLS session is freed twice, and once
\* gemini_fetch_document has returned, whichever way it exits, every socket
\* that was opened has been closed exactly once and every TLS session that
\* was created has been shut down and freed exactly once.
C1_EveryExitClosesOnce ==
    /\ \A i \in 1..Len(sockets) : sockets[i].closes <= 1
    /\ \A i \in 1..Len(sessions) : sessions[i].frees <= 1
    /\ Returned =>
         /\ \A i \in 1..Len(sockets) : sockets[i].closes = 1
         /\ \A i \in 1..Len(sessions) :
                sessions[i].shutdowns = 1 /\ sessions[i].frees = 1

\* C2: across a chain of redirect and input-needed responses at most one
\* socket and one TLS session are open at any moment, and from the entry of
\* hop k+1 on (before its name resolution begins) the socket and the session
\* of every earlier hop are closed.
C2_OneConnectionAtATime ==
    /\ Cardinality(OpenSockets) <= 1
    /\ Cardinality(LiveSessions) <= 1
    /\ \A i \in 1..Len(sockets) : sockets[i].hop < hop => sockets[i].closes = 1
    /\ \A i \in 1..Len(sessions) :
           sessions[i].hop < hop => sessions[i].shutdowns = 1 /\ sessions[i].frees = 1

\* the third hop of a chain made of an input-needed and a redirect response
\* is about to resolve its host, the two earlier connections were opened
C2_Witness ==
    /\ hop = 3
    /\ pc = "resolve"
    /\ Len(sockets) = 2
    /\ Len(callbacks) = 1

\* C3: after the fetch and the load step of the browser, for every server
\* response, the document is non-null with a populated status and carries
\* either the collected and parsed body (status OK, which needs a status-2
\* response) or the error notice.
C3_DocumentAlwaysValid ==
    pc = "loaded" =>
        /\ ~document.null
        /\ document.error \in Errors
        /\ IF document.error = GEMINI_OK
           THEN /\ status[1] = "2"
                /\ ~document.content.uninit
                /\ ~document.elements.uninit
                /\ parsed_with # "none"
                /\ ContentOf(document) = Body
           ELSE /\ ~document.content.uninit
                /\ ContentOf(document) = ErrorNotice(document.error)
                /\ ~document.elements.uninit

\* the status of the document is what the last hop ended with
StatusIsLastOutcome == document.error \in {error, GEMINI_NOT_TEXT}

\* C4 as stated: after a chain of redirects the url of the returned document
\* is the URL of the last request that was sent, and its status is the
\* outcome of that last exchange.
C4_UrlIsLastRequestSent ==
    (Returned /\ hop >= 2) =>
        /\ requests # <<>>
        /\ requests[Len(requests)].bytes = document.url \o CRLF
        /\ StatusIsLastOutcome

\* C4 amended: after a chain of redirects the url of the returned document is
\* the final target, the URL the last gemini_fetch_document call was made
\* with; it is the URL of the last request sent whenever that last hop sent
\* a request; the status is the outcome of that last hop.
C4_UrlIsFinalTarget ==
    (Returned /\ hop >= 2) =>
        /\ Len(calls) = hop
        /\ document.url = calls[Len(calls)]
        /\ \A i \in 1..Len(requests) :
               requests[i].hop = hop => requests[i].bytes = document.url \o CRLF
        /\ StatusIsLastOutcome

\* a chain of two hops has ended with a body fetched from the final target
C4_Witness ==
    /\ pc = "returned"
    /\ hop = 3
    /\ requests[Len(requests)].hop = 3
    /\ document.error = GEMINI_OK
    /\ document.url # calls[1]

\* C5: for a well-formed header, a status starting with 4 gives
\* temporary-failure, 5 permanent-failure, 6 client-certificate-required,
\* and no body byte is read from the stream.
C5_FailureStatuses ==
    (Returned /\ WellFormedHeader(Header) /\ Header[1] \in {"4", "5", "6"}) =>
        /\ Header[1] = "4" => document.error = GEMINI_TEMPORARY_FAILURE
        /\ Header[1] = "5" => document.error = GEMINI_PERMANENT_FAILURE
        /\ Header[1] = "6" => document.error = GEMINI_CLIENT_CERTIFICATE_REQUIRED
        /\ reads[hop].body = 0
        /\ spos = server.hlen

\* "51 x" followed by a body byte was answered and the fetch has returned
C5_Witness ==
    /\ Returned
    /\ Header = Hdr(<<"5", "1">>, <<"x">>)
    /\ Body = <<"z">>
    /\ document.error = GEMINI_PERMANENT_FAILURE

\* C6: a name-resolution failure gives ip-resolve-failure, a connect failure
\* server-connection-failure, a TLS handshake failure tls-handshake-failure;
\* the fetch is terminal then: the hop writes no request and reads no header
\* or body byte.
C6_ConnectionFailuresTerminal ==
    /\ failed_step # "none" =>
         /\ pc \in {"fetch_failed", "cleanup", "returned", "loaded"}
         /\ \A i \in 1..Len(requests) : requests[i].hop # hop
         /\ reads[hop] = [header |-> 0, body |-> 0]
         /\ spos = 0
    /\ (Returned /\ failed_step = "resolve") =>
           document.error = GEMINI_IP_RESOLVE_FAILURE
    /\ (Returned /\ failed_step = "connect") =>
           document.error = GEMINI_SERVER_CONNECTION_FAILURE
    /\ (Returned /\ failed_step = "handshake") =>
           document.error = GEMINI_TLS_HANDSHAKE_FAILURE

\* the handshake of the second hop failed and the fetch has returned
C6_Witness ==
    /\ Returned
    /\ hop = 2
    /\ failed_step = "handshake"
    /\ document.error = GEMINI_TLS_HANDSHAKE_FAILURE

\* the stream of the current hop never delivers "\r\n": every read reports an
\* error, or every read delivers one more header byte
NeverTerminated ==
    /\ server.tail \in {"err", "flood"}
    /\ \A i \in 1..Len(server.bytes) : server.bytes[i] \notin {CR, LF}

\* C7: if the stream never delivers the terminator within the capacity of
\* the header buffer, the header reader stores nothing beyond the end of
\* io_buffer, no status is dispatched, and the fetch ends with
\* header-parse-failure.
C7_UnterminatedHeaderFails ==
    NeverTerminated =>
        /\ ~oob
        /\ pc # "dispatch"
        /\ Returned => document.error = GEMINI_HEADER_PARSING_FAILURE

\* C8: if the stream ends after fewer than 4 bytes, no status is parsed or
\* dispatched and the fetch ends with header-parse-failure.
C8_ShortStreamFails ==
    (server.tail = "eof" /\ Len(server.bytes) < 4) =>
        /\ pc # "dispatch"
        /\ status = UninitBytes
        /\ Returned => document.error = GEMINI_HEADER_PARSING_FAILURE

\* the stream "2\r\n" (terminator seen, 3 bytes) has ended the fetch
C8_Witness ==
    /\ Returned
    /\ server = Script(<<"2", CR, LF>>, 3, "eof")
    /\ header_length = 3
    /\ document.error = GEMINI_HEADER_PARSING_FAILURE

\* C9: a status-2 response with an empty meta ("20\r\n" or "20 \r\n") is
\* treated as text/gemini: the body is collected, parsed with the gemtext
\* parser, and the status is OK.
C9_EmptyMetaIsGemtext ==
    (Returned /\ Header \in {<<"2", "0">> \o CRLF, <<"2", "0", SP>> \o CRLF}) =>
        /\ document.error = GEMINI_OK
        /\ parsed_with = "gemtext"
        /\ ~document.content.uninit
        /\ ContentOf(document) = Body

IsTextMime(m) == SubSeq(m, 1, Min(5, Len(m))) = <<"t", "e", "x", "t", "/">>

\* C10: for a status-2 response with a meta, a meta that is no text type
\* gives not-text with no body byte read, the meta text/gemini is parsed with
\* the gemtext parser and any other text/* meta with the raw-text parser.
C10_MimeDispatch ==
    (Returned /\ WellFormedHeader(Header) /\ Header[1] = "2"
              /\ HeaderMeta(Header) # <<>>) =>
        LET m == HeaderMeta(Header) IN
        /\ ~IsTextMime(m) =>
              /\ document.error = GEMINI_NOT_TEXT
              /\ reads[hop].body = 0
              /\ spos = server.hlen
        /\ m = MetaGemini => document.error = GEMINI_OK /\ parsed_with = "gemtext"
        /\ (IsTextMime(m) /\ m # MetaGemini) =>
              document.error = GEMINI_OK /\ parsed_with = "text"

(***************************************************************************)
(* Properties of the input-needed branch                                   *)
(***************************************************************************)
\* the socket and the session of hop h have been released
Released(h) ==
    /\ \A i \in 1..Len(sockets) : sockets[i].hop = h => sockets[i].closes = 1
    /\ sessions[h].frees = 1

\* C11: on a status-1 response the input callback is called exactly once, with
\* the meta of the header as prompt; the next call is made for the URL, then
\* "?", then exactly the bytes the callback wrote, its request carries that URL
\* and is sent on a new connection, the previous one being released.
C11_InputCallback ==
    \A k \in 1..Len(callbacks) :
        LET cb == callbacks[k] IN
        /\ \A j \in 1..Len(callbacks) : callbacks[j].hop = cb.hop => j = k
        /\ cb.prompt = HeaderMeta(cb.header)
        /\ Len(calls) > cb.hop =>
              /\ calls[cb.hop + 1] = calls[cb.hop] \o <<"?">> \o cb.written
              /\ Released(cb.hop)
              /\ \A i \in 1..Len(requests) :
                    requests[i].hop = cb.hop + 1 =>
                        requests[i].bytes = calls[cb.hop + 1] \o CRLF

\* C12: for a URL of at most 1022 bytes, the max_length the input callback
\* gets is the room left after the URL and the "?", 1021 - (url_len + 1), a
\* number that is not negative, so that the URL with "?" and the input stays
\* within the 1022 bytes of a request and within io_buffer.
C12_MaxLengthIsRoomLeft ==
    \A k \in 1..Len(callbacks) :
        LET cb == callbacks[k]
            url_len == Len(calls[cb.hop])
        IN url_len <= MAX_URL_LENGTH =>
              /\ 1021 - (url_len + 1) >= 0
              /\ cb.max_length = 1021 - (url_len + 1)
              /\ url_len + 1 + Len(cb.written) <= MAX_URL_LENGTH
              /\ ~oob

(***************************************************************************)
(* Properties of the parsers                                               *)
(***************************************************************************)
\* the elements a parser has produced and the content they index
Parsed(parser) == parsed_with = parser /\ pc \in {"cleanup", "returned", "loaded"}
Elements == SubSeq(document.elements.data, 1, document.elements.length)
Content == ContentOf(document)

\* the bytes lit are found at offset i of c
StartsWith(c, i, lit) == i + Len(lit) <= Len(c) /\ SubSeq(c, i + 1, i + Len(lit)) = lit

\* offset of the first byte of [s, e) that is no white space, e if there is none
FirstNonSpace(c, s, e) ==
    LET stops == {k \in s..e : k = e \/ ~isspace(At(c, k))}
    IN CHOOSE k \in stops : \A j \in stops : k <= j

\* The lines of a content, read as the format defines them: a line runs from
\* start to the line break at endx (the length of the content for a last line
\* without line break), first is its first byte that is no white space, pre
\* tells whether a preformatted block is open when the line begins, and fence
\* whether the line toggles the block (three backticks at its start inside a
\* block, after its leading white space outside)
RECURSIVE LinesFrom(_, _, _)
LinesFrom(c, s, pre) ==
    IF s >= Len(c) THEN <<>>
    ELSE LET e == IndexFrom(c, LF, s)
             f == FirstNonSpace(c, s, e)
             fence == IF pre THEN StartsWith(c, s, Fence)
                      ELSE f < e /\ StartsWith(c, f, Fence)
         IN <<[start |-> s, endx |-> e, first |-> f, pre |-> pre, fence |-> fence]>>
            \o LinesFrom(c, e + 1, IF fence THEN ~pre ELSE pre)

Lines(c) == LinesFrom(c, 0, FALSE)

\* the line that holds offset o
LineOf(c, o) ==
    LET ls == Lines(c) IN ls[CHOOSE k \in 1..Len(ls) : ls[k].start <= o /\ o <= ls[k].endx]

\* the prefix table of the format
PrefixType(c, o) ==
    IF StartsWith(c, o, <<">">>) THEN GEMTEXT_BLOCKQUOTE
    ELSE IF StartsWith(c, o, <<"*">>) THEN GEMTEXT_LIST_ITEM
    ELSE IF StartsWith(c, o, <<"#", "#", "#">>) THEN GEMTEXT_HEADING_THREE
    ELSE IF StartsWith(c, o, <<"#", "#">>) THEN GEMTEXT_HEADING_TWO
    ELSE IF StartsWith(c, o, <<"#">>) THEN GEMTEXT_HEADING_ONE
    ELSE IF StartsWith(c, o, <<"=", ">">>) THEN GEMTEXT_LINK
    ELSE IF StartsWith(c, o, Fence) THEN GEMTEXT_PREFORMATTED
    ELSE GEMTEXT_PARAGRAPH

C14_NoNewlineInElement ==
    Parsed("gemtext") =>
        \A i \in 1..Len(Elements) :
            \A o \in Elements[i].start..Elements[i].end : At(Content, o) # LF

\* C15: start and end of every element of either parser are valid inclusive
\* offsets into the content of logical length L: both are at most L - 1.
C15_OffsetsInsideContent ==
    (Parsed("gemtext") \/ Parsed("text")) =>
        \A i \in 1..Len(Elements) :
            /\ Elements[i].start <= Len(Content) - 1
            /\ Elements[i].end <= Len(Content) - 1

\* C16: outside a preformatted block the type of every element is the one
\* the prefix table gives for the bytes at the start of the element.
C16_TypeFollowsPrefixTable ==
    Parsed("gemtext") =>
        \A i \in 1..Len(Elements) :
            ~LineOf(Content, Elements[i].start).pre =>
                Elements[i].type = PrefixType(Content, Elements[i].start)

\* the elements that start where the line ln starts
ElementsAt(ln) == {i \in 1..Len(Elements) : Elements[i].start = ln.start}

\* C17: every line after an opening fence line and before the next closing
\* fence line, or before the end of the content when the fence is never
\* closed, yields an element of type preformatted, whatever its prefix is.
C17_LinesInsideBlockPreformatted ==
    Parsed("gemtext") =>
        \A k \in 1..Len(Lines(Content)) :
            LET ln == Lines(Content)[k] IN
            (ln.pre /\ ~ln.fence) =>
                \E i \in ElementsAt(ln) : Elements[i].type = GEMTEXT_PREFORMATTED

\* the line "#a" has been parsed inside a block and again after the block
C17_Witness ==
    /\ Parsed("gemtext")
    /\ Content = JoinLines(<<Fence, <<"#", "a">>, Fence, <<"#", "a">>>>)
    /\ Elements[2] = [type |-> GEMTEXT_PREFORMATTED, start |-> 4, end |-> 5]
    /\ Elements[4].type = GEMTEXT_HEADING_ONE

\* C18 as stated: the content made of an opening fence line, the line "code",
\* a closing fence line and the line "# H" parses to exactly two elements, a
\* preformatted one spanning "code" and a heading-1 one spanning "# H".
C18_FencedCodeTwoElements ==
    (Parsed("gemtext") /\ Content = FencedCode) =>
        Elements = << [type |-> GEMTEXT_PREFORMATTED, start |-> 4, end |-> 7],
                      [type |-> GEMTEXT_HEADING_ONE, start |-> 13, end |-> 15] >>

\* C18 amended: that content parses to exactly four elements, each fence line
\* being a preformatted element of its own: the opening fence, "code", the
\* closing fence, all preformatted, then the heading-1 element "# H".
C18_FencedCodeFourElements ==
    (Parsed("gemtext") /\ Content = FencedCode) =>
        Elements = << [type |-> GEMTEXT_PREFORMATTED, start |-> 0, end |-> 2],
                      [type |-> GEMTEXT_PREFORMATTED, start |-> 4, end |-> 7],
                      [type |-> GEMTEXT_PREFORMATTED, start |-> 9, end |-> 11],
                      [type |-> GEMTEXT_HEADING_ONE, start |-> 13, end |-> 15] >>

\* the fenced content has been parsed as gemtext
C18_Witness ==
    /\ Parsed("gemtext")
    /\ Content = FencedCode
    /\ Len(Elements) > 0

HasVisibleByte(ln) == ln.first < ln.endx

\* C19: for a content without fence lines the gemtext parser yields exactly
\* one element per line that holds a byte other than white space, in line
\* order, none for the other lines, and every element starts at the first
\* such byte of its line.
C19_OneElementPerVisibleLine ==
    (Parsed("gemtext") /\ \A k \in 1..Len(Lines(Content)) : ~Lines(Content)[k].fence) =>
        LET visible == SelectSeq(Lines(Content), HasVisibleByte) IN
        /\ Len(Elements) = Len(visible)
        /\ \A i \in 1..Len(Elements) :
              /\ Elements[i].start = visible[i].first
              /\ ~isspace(At(Content, Elements[i].start))

\* "a", two empty lines and "a" have been parsed into two paragraphs
C19_Witness ==
    /\ Parsed("gemtext")
    /\ Content = JoinLines(<<<<"a">>, <<>>, <<>>, <<"a">>>>)
    /\ Len(Elements) = 2
    /\ Elements[2] = [type |-> GEMTEXT_PARAGRAPH, start |-> 4, end |-> 4]

\* C20: inside a preformatted block every empty line yields exactly one
\* element, of type preformatted and with no byte to show (its range holds
\* nothing but the line break), and no other element reaches over the line,
\* the empty line that ends the content included.
C20_BlankLinesKeptInsideBlock ==
    Parsed("gemtext") =>
        \A k \in 1..Len(Lines(Content)) :
            LET ln == Lines(Content)[k] IN
            (ln.pre /\ ln.endx = ln.start) =>
                /\ Cardinality(ElementsAt(ln)) = 1
                /\ \A i \in ElementsAt(ln) :
                      /\ Elements[i].type = GEMTEXT_PREFORMATTED
                      /\ \A o \in Elements[i].start..Elements[i].end : At(Content, o) = LF
                /\ \A i \in 1..Len(Elements) :
                      (Elements[i].start <= ln.start /\ ln.start <= Elements[i].end) =>
                          i \in ElementsAt(ln)

\* a block with an empty line after the fence and one at the end of the
\* content has been parsed
C20_Witness ==
    /\ Parsed("gemtext")
    /\ Content = JoinLines(<<Fence, <<>>, <<"a">>, <<>>>>) \o <<LF>>
    /\ Len(Elements) = 4
    /\ Elements[2].start = 4
    /\ Elements[4].start = 7

\* C21: in raw-text mode the parser yields exactly one preformatted element
\* per line of the body, empty lines and a last line without line break
\* included (one element for a body without any line break), and each element
\* spans that one line: it starts where the line starts and ends at the last
\* byte of the line or at its line break.
C21_RawTextOneElementPerLine ==
    Parsed("text") =>
        LET ls == Lines(Content) IN
        /\ Len(Elements) = Len(ls)
        /\ \A i \in 1..Len(Elements) :
              /\ Elements[i].type = GEMTEXT_PREFORMATTED
              /\ Elements[i].start = ls[i].start
              /\ Elements[i].end \in {ls[i].endx - 1, ls[i].endx}


(***************************************************************************)
(* Properties of the history list                                          *)
(***************************************************************************)
\* the pages loaded so far that no go-back has removed
NotPopped == {k \in 1..Len(pages.nodes) : ~pages.nodes[k].popped}

\* the pages the history still holds: loaded and not deallocated
Held == {k \in 1..Len(pages.nodes) : pages.nodes[k].frees = 0}

\* C28: after any sequence of page loads and go-backs, for every max_length
\* >= 1, the history holds at most max_length pages and, once a page has
\* been loaded, its head is the most recently loaded page that no go-back
\* has removed, and that page has not been deallocated.
C28_HistoryBoundedHeadMostRecent ==
    (pc = "loaded" /\ pages.max_length >= 1) =>
        /\ pages.length <= pages.max_length
        /\ Cardinality(Held) <= pages.max_length
        /\ pages.head \in NotPopped
        /\ \A k \in NotPopped : k <= pages.head
        /\ pages.head \in Held

\* the pages an insert has evicted: deallocated, and not by a go-back
Evicted == {k \in 1..Len(pages.nodes) : pages.nodes[k].frees > 0 /\ ~pages.nodes[k].popped}

\* C38: whenever doubly_linked_insert_first has evicted because the size
\* limit was reached, it has deallocated the oldest page, exactly once, and
\* tail refers to the oldest page still in the list, so that every later
\* eviction removes the then-oldest page again and none touches a freed or
\* undefined node.
C38_EvictionRemovesOldest ==
    Evicted # {} =>
        /\ ~pages.crashed
        /\ ~pages.undefined
        /\ \A k \in 1..Len(pages.nodes) : pages.nodes[k].frees <= 1
        /\ \A k \in Evicted : \A j \in Held : k < j
        /\ Held # {} => (pages.tail \in Held /\ \A j \in Held : pages.tail <= j)

\* the page loaded last before page h among those no go-back has removed
LoadedBefore(h) ==
    LET older == {k \in NotPopped : k < h}
    IN IF older = {} THEN NULL ELSE CHOOSE k \in older : \A j \in older : j <= k

\* C39: doubly_linked_delete_head on a history with fewer than 2 entries
\* leaves head, tail and length unchanged and calls no deallocator, so that
\* the history is never empty once a page has been loaded; with 2 or more
\* entries it deallocates the head page and nothing else, and the head becomes
\* the page loaded immediately before it.
C39_DeleteHead ==
    /\ [][GoBack =>
            IF pages.length < 2
            THEN pages' = pages
            ELSE /\ ~pages'.crashed
                 /\ pages'.nodes[pages.head].frees = 1
                 /\ \A k \in 1..Len(pages.nodes) :
                        k # pages.head => pages'.nodes[k] = pages.nodes[k]
                 /\ pages'.head = LoadedBefore(pages.head)
                 /\ pages'.nodes[pages'.head].frees = 0]_vars
    /\ [](pc = "loaded" => pages.length >= 1)

(***************************************************************************)
(* Properties of the dynamic array                                         *)
(***************************************************************************)
\* C22: after dyn_array_create and any sequence of dyn_array_resize_to_fit,
\* dyn_array_prepare_new_item and collection-loop iterations, the length of
\* the buffer is at most its capacity when the operation returns, and the
\* capacity is never below the capacity before the operation.
C22_LengthWithinCapacity ==
    unit.op = "array" =>
        /\ unit.array.length <= unit.array.capacity
        /\ unit.array.capacity >= unit.before.capacity

\* C22 witness: an item has been added to a full buffer of capacity 2
C22_Witness ==
    /\ unit.op = "array"
    /\ unit.call = "prepare_new_item"
    /\ unit.before.length = 2
    /\ unit.before.capacity = 2
    /\ unit.array.length = 3

\* C23: dyn_array_resize_to_fit(array, needed) sets the capacity to the
\* larger of needed and twice the old capacity when needed exceeds the old
\* capacity, and leaves it unchanged otherwise; length, item size and the
\* stored items are unchanged in both cases.
C23_ResizePolicy ==
    (unit.op = "array" /\ unit.call = "resize_to_fit") =>
        LET old == unit.before.capacity
            twice == 2 * old
        IN /\ unit.array.capacity =
                 IF unit.needed > old
                 THEN (IF unit.needed >= twice THEN unit.needed ELSE twice)
                 ELSE old
           /\ unit.array.length = unit.before.length
           /\ unit.array.item_size = unit.before.item_size
           /\ unit.array.data = unit.before.data

\* C23 witness: a resize that doubled a non-empty capacity holding items
C23_Witness ==
    /\ unit.op = "array"
    /\ unit.call = "resize_to_fit"
    /\ unit.before.capacity > 0
    /\ unit.before.length > 0
    /\ unit.needed > unit.before.capacity
    /\ unit.needed < 2 * unit.before.capacity
    /\ unit.array.capacity = 2 * unit.before.capacity

\* C23 witness: a resize of a buffer created with capacity 0
C23_WitnessFromZero ==
    /\ unit.op = "array"
    /\ unit.call = "resize_to_fit"
    /\ unit.before.capacity = 0
    /\ unit.needed > 0
    /\ unit.array.capacity = unit.needed

(***************************************************************************)
(* Properties of the collection                                            *)
(***************************************************************************)
\* the collection loop of the current fetch has started
Collecting ==
    /\ document # NullDocument
    /\ document.error = GEMINI_OK
    /\ document.content # UninitArray

\* C24: whatever the sizes of the reads, the content collected so far is
\* exactly the bytes of the stream after the header's first line terminator
\* up to the read position, and its length is their count; when the
\* collection has finished it is the whole body.  (No byte of the body is
\* taken by the header loop, none is lost or stored twice when the array is
\* relocated.)
C24_ContentIsBody ==
    Collecting =>
        /\ ContentOf(document) = SubSeq(server.bytes, server.hlen + 1, spos)
        /\ document.content.length = spos - server.hlen
        /\ pc # "collect" => ContentOf(document) = Body

\* C24 witness: a body of two chunks and a byte has been collected in more
\* than three reads, the array having grown twice
C24_Witness ==
    /\ Collecting
    /\ pc = "parse"
    /\ document.content.length = 2 * chunk_size + 1
    /\ document.content.capacity = 4 * chunk_size
    /\ reads[hop].body > 4

\* C25: when the collection has finished a NUL byte is stored at index
\* length of the content, that index is inside the capacity, and length
\* does not count the NUL.
C25_TerminatorInsideCapacity ==
    (Collecting /\ pc # "collect") =>
        /\ document.content.length < document.content.capacity
        /\ Len(document.content.data) = document.content.length + 1
        /\ document.content.data[document.content.length + 1] = NUL
        /\ document.content.length = Len(Body)

\* C25 witness: a body of exactly one chunk has been collected
C25_Witness ==
    /\ Collecting
    /\ pc = "parse"
    /\ Len(Body) = chunk_size
    /\ document.content.length = chunk_size
    /\ document.content.data[chunk_size + 1] = NUL

\* C25 witness: an empty body has been collected
C25_WitnessEmpty ==
    /\ Collecting
    /\ pc = "parse"
    /\ Len(Body) = 0
    /\ document.content.capacity = chunk_size
    /\ document.content.data = <<NUL>>

(***************************************************************************)
(* Properties of the URL utilities                                         *)
(***************************************************************************)
\* C26: for every URL scheme://host[/path], get_hostname_with_scheme returns
\* scheme://host with no trailing slash: the input up to the first '/' after
\* the scheme separator, or the whole input when there is none.
C26_HostnameWithScheme ==
    (unit.op = "url" /\ unit.call = "get_hostname_with_scheme") =>
        /\ unit.result = unit.scheme \o <<":", "/", "/">> \o unit.host
        /\ unit.path = <<>> => unit.result = unit.url

\* C26 witness: the host of a URL with a path of two segments was taken
C26_Witness ==
    /\ unit.op = "url"
    /\ unit.call = "get_hostname_with_scheme"
    /\ unit.path = <<"/", "d", "/", "f">>
    /\ unit.host = <<"a", ".", "b">>
    /\ Len(unit.result) < Len(unit.url)

\* the link has a protocol scheme: a ':' within its first 8 characters
HasScheme(link) == \E i \in 1..8 : i <= Len(link) /\ link[i] = ":"

\* index of the last '/' of a string that holds one
LastSlash(s) == CHOOSE i \in 1..Len(s) : s[i] = "/" /\ \A j \in (i + 1)..Len(s) : s[j] # "/"

\* C27: the absolute URL produced for a link is the link verbatim when it has
\* a protocol scheme; scheme://host of the base followed by the link when the
\* link starts with '/'; otherwise the base truncated after its last '/'
\* (inclusive) followed by the link.
C27_LinkResolution ==
    (unit.op = "url" /\ unit.call = "link") =>
        unit.result =
            IF HasScheme(unit.link) THEN unit.link
            ELSE IF unit.link # <<>> /\ unit.link[1] = "/"
            THEN unit.scheme \o <<":", "/", "/">> \o unit.host \o unit.link
            ELSE SubSeq(unit.url, 1, LastSlash(unit.url)) \o unit.link

\* C27 witness: a directory-relative link was resolved against a base with a
\* file in a directory
C27_Witness ==
    /\ unit.op = "url"
    /\ unit.call = "link"
    /\ unit.url = UrlOf(<<"g", "e", "m", "i", "n", "i">>, <<"a">>, <<"/", "d", "/", "f">>)
    /\ unit.link = <<"d", "/", "n">>
    /\ unit.result = Scheme \o <<"a", "/", "d", "/", "d", "/", "n">>

\* C36: for every base URL with a scheme and every path-relative link (no
\* scheme, not starting with '/') the resolved URL begins with scheme://host
\* of the base: resolution never drops or replaces the host of the base, also
\* when the base has no path after the host.
C36_ResolutionKeepsHost ==
    (/\ unit.op = "url"
     /\ unit.call = "link"
     /\ ~HasScheme(unit.link)
     /\ ~(unit.link # <<>> /\ unit.link[1] = "/")) =>
        LET origin == unit.scheme \o <<":", "/", "/">> \o unit.host
        IN Take(unit.result, Len(origin)) = origin

(***************************************************************************)
(* Properties of the name resolution                                       *)
(***************************************************************************)
\* the host component of a URL: the text between "://" and the next '/', or
\* the end of the URL
HostComponent(url) ==
    LET seps == {i \in 1..(Len(url) - 2) :
                    url[i] = ":" /\ url[i + 1] = "/" /\ url[i + 2] = "/"}
        sep == CHOOSE i \in seps : \A j \in seps : i <= j
        ends == {i \in (sep + 3)..Len(url) : url[i] = "/"}
        end == IF ends = {} THEN Len(url) + 1
               ELSE CHOOSE i \in ends : \A j \in ends : i <= j
    IN SubSeq(url, sep + 3, end - 1)

\* C30: for every URL gemini_fetch_document is called with (the user's URL,
\* a URL with the user's input glued on, a redirect target taken from meta)
\* the name handed to getaddrinfo is the host component of that URL.
C30_LookupIsHostComponent ==
    \A i \in 1..Len(lookups) : lookups[i] = HostComponent(calls[i])

(***************************************************************************)
(* Termination of the fetch                                                *)
(***************************************************************************)
\* C29: when the servers send redirects and input requests finitely often
\* and every read returns data, end of stream or an error,
\* gemini_fetch_document eventually returns a document; the header loop is
\* eventually left for the parsing of the header and the collection loop
\* for the parsing of the content.
C29_FetchReturns ==
    /\ <>Returned
    /\ [](pc = "read_header" => <>(pc = "parse_header"))
    /\ [](pc = "collect" => <>(pc = "parse"))

(***************************************************************************)
(* Properties of the input collection                                      *)
(***************************************************************************)
\* the string collect_url_from_user has returned
Collected == SubSeq(unit.buffer, 1, unit.result)

\* C31: for any sequence of printable characters, spaces and backspaces
\* ended by Enter, collect_url_from_user returns a length between 0 and
\* max_length and never writes at or beyond index max_length of the buffer.
C31_InputWithinMaxLength ==
    unit.op = "input" =>
        /\ unit.written <= unit.max_length
        /\ unit.input_length <= unit.max_length
        /\ unit.done => (unit.result >= 0 /\ unit.result <= unit.max_length)

\* C31 witness: the buffer was filled to max_length, a further key was
\* pressed, and Enter returned max_length
C31_Witness ==
    /\ unit.op = "input"
    /\ unit.done
    /\ unit.max_length = 3
    /\ unit.result = 3
    /\ unit.keys > 3
    /\ unit.last = "q"

\* C32: the string collect_url_from_user returns holds no raw space, and
\* every space typed is in it as a whole "%20" or not at all: no '%' of it
\* lacks its "20".  (The keys of the model type no '%' themselves.)
C32_SpacesEncoded ==
    (unit.op = "input" /\ unit.done) =>
        \A i \in 1..Len(Collected) :
            /\ Collected[i] # SP
            /\ Collected[i] = "%" =>
                  /\ i + 2 <= Len(Collected)
                  /\ Collected[i + 1] = "2"
                  /\ Collected[i + 2] = "0"

\* the bytes put in the place of what follows a line break
AlternativeTails == { <<>>, <<"a">>, <<"#">>, <<"a", LF, "a">> }

\* the content c with everything after offset nl replaced by tail
WithTail(c, nl, tail) == Take(c, nl + 1) \o tail

\* C34: the type the gemtext parser gives a line depends only on the bytes of
\* that line and on the preformatted state: whatever bytes are put in the
\* place of those after the line break that ends the line, the parser gives
\* the element of that line the same type (a line of a single '#' is a
\* heading of level one whatever the next line begins with).
C34_TypeIndependentOfLaterBytes ==
    Parsed("gemtext") =>
        \A i \in 1..Len(Elements) :
            LET nl == IndexFrom(Content, LF, Elements[i].start) IN
            nl < Len(Content) =>
                \A tail \in AlternativeTails :
                    LET other == gemini_document_parse_gemtext(WithTail(Content, nl, tail))
                    IN (Len(other) >= i /\ other[i].start = Elements[i].start) =>
                           other[i].type = Elements[i].type

\* The lines of a content when a line toggles the block by the same rule
\* inside a block as outside: three backticks after optional leading white
\* space
RECURSIVE SymmetricLinesFrom(_, _, _)
SymmetricLinesFrom(c, s, pre) ==
    IF s >= Len(c) THEN <<>>
    ELSE LET e == IndexFrom(c, LF, s)
             f == FirstNonSpace(c, s, e)
             fence == f < e /\ StartsWith(c, f, Fence)
         IN <<[start |-> s, endx |-> e, first |-> f, pre |-> pre, fence |-> fence]>>
            \o SymmetricLinesFrom(c, e + 1, IF fence THEN ~pre ELSE pre)

\* the line of that reading that holds offset o
SymmetricLineOf(c, o) ==
    LET ls == SymmetricLinesFrom(c, 0, FALSE)
    IN ls[CHOOSE k \in 1..Len(ls) : ls[k].start <= o /\ o <= ls[k].endx]

\* C35: a line toggles the preformatted state by the same rule when it opens
\* a block as when it closes one: every line that would open a block outside
\* (three backticks after optional leading white space) closes the block
\* inside, so an element whose line begins outside a block by that rule and
\* is no such line is not preformatted.
C35_FenceTogglesBothWays ==
    Parsed("gemtext") =>
        \A i \in 1..Len(Elements) :
            LET ln == SymmetricLineOf(Content, Elements[i].start) IN
            (~ln.pre /\ ~ln.fence) => Elements[i].type # GEMTEXT_PREFORMATTED

(***************************************************************************)
(* Properties of the gemtext scan                                          *)
(***************************************************************************)
\* C33: the gemtext parser terminates on every finite content buffer: every
\* pass of the loop that goes on to another test of the loop condition has
\* strictly increased the scan offset, also inside a preformatted block on a
\* blank line; the offset never passes the length of the content, so there
\* are at most as many passes as the content has bytes (none for a content
\* of length 0), and as long as the function has not returned it can take
\* its next step.
C33_ScanOffsetIncreases ==
    unit.op = "scan" =>
        /\ (unit.iterations > 0 /\ ~unit.done) => unit.before < unit.offset
        /\ unit.offset <= Len(unit.content)
        /\ unit.iterations <= Len(unit.content)
        /\ ~unit.done => ENABLED NextScan
        /\ unit.done => unit.elements = gemini_document_parse_gemtext(unit.content)

\* the scan has gone over a blank line inside a preformatted block, moved the
\* offset by one byte, and has returned
C33_Witness ==
    /\ unit.op = "scan"
    /\ unit.done
    /\ unit.content = JoinLines(<<Fence, <<>>, Fence, <<"a">>>>)
    /\ Len(unit.elements) = 4
    /\ unit.elements[2].start = 4
    /\ unit.elements[3].start = 5

\* the scan of a content of white space only has returned after one pass
\* without an element
C33_WitnessWhitespace ==
    /\ unit.op = "scan"
    /\ unit.done
    /\ unit.content = <<SP, LF, SP>>
    /\ unit.iterations = 1
    /\ unit.elements = <<>>

(***************************************************************************)
(* Properties of the link under the cursor                                 *)
(***************************************************************************)
\* the element the link of the state was taken from
LinkElement == unit.elements[unit.scroll_offset + 1]

\* C37: for every link element the URL text that
\* gemini_browser_get_link_under_cursor extracts lies inside the byte range
\* [start + 2, end] of that element; a link line with no target after "=>"
\* yields no text of a following line.
C37_LinkTextInsideElement ==
    (/\ unit.op = "cursor"
     /\ unit.link.called
     /\ unit.scroll_offset < Len(unit.elements)
     /\ LinkElement.type = GEMTEXT_LINK) =>
        \/ unit.link.link_string = <<>>
        \/ /\ LinkElement.start + 2 <= unit.link.start
           /\ unit.link.end <= LinkElement.end
====
